---- MODULE Spec2Model ----
(***************************************************************************)
(* Voxel storage, terrain generation, surface meshing and chunk lifecycle  *)
(* of Cppcraft-2.                                                          *)
(*                                                                         *)
(* The state is the set of live Chunk objects of src/world/chunk.cpp       *)
(* (their fields), the OpenGL object store their buildMesh/cleanup talk    *)
(* to, and a record of the last call made.  The chunk is scaled down:      *)
(* CHUNK_SIZE and CHUNK_HEIGHT are model bounds, the code's loops and      *)
(* index arithmetic are kept as written.  The static chunk.h helpers       *)
(* (GetIndex, IsInBounds) keep the dimensions chunk.h gives them.          *)
(*                                                                         *)
(* Floats of the vertex buffer are integers here: positions and normals    *)
(* are integral in the code, texture coordinates are multiples of 1/16     *)
(* and are stored multiplied by TexScale.  The floats of the height        *)
(* function are integers counting thousandths.                             *)
(*                                                                         *)
(* The Game object of src/game.cpp and the position of its run loop are    *)
(* two more variables.                                                     *)
(*                                                                         *)
(* Seven specifications share the variables: Spec (one chunk), SpecWorld   *)
(* (two adjacent chunks), SpecTerrain (two chunks with generated terrain), *)
(* SpecLife (a World, whose map of chunks is keyed by chunkKey),           *)
(* SpecHandles (two chunks built, drawn and destroyed), SpecMesh (one      *)
(* chunk written and meshed) and SpecGame (the Game object and its loop).  *)
(***************************************************************************)
EXTENDS Integers, Sequences, FiniteSets, TLC

(* ------------------------------------------------------------------ *)
(* Bounds of the model                                                  *)
(* ------------------------------------------------------------------ *)

\* Edge length of the modelled chunk along x and z (16 in the game).
CHUNK_SIZE == 2

\* Height of the modelled chunk (256 in the game).
CHUNK_HEIGHT == 5

\* In-bounds setBlock calls made in one behaviour.
MaxWrites == 2

\* Frames one call of Game::run may go through.
MaxFrames == 6

(* ------------------------------------------------------------------ *)
(* Program constants                                                    *)
(* ------------------------------------------------------------------ *)

CHUNK_SIZE_X == 16

CHUNK_SIZE_Y == 256

CHUNK_SIZE_Z == 16

CHUNK_VOLUME == CHUNK_SIZE_X * CHUNK_SIZE_Y * CHUNK_SIZE_Z

\* 1 / texSize: texture coordinates are stored multiplied by this.
TexScale == 16

\* Floats per vertex: position 3, texture 2, normal 3.
FloatsPerVertex == 8

Air == "Air"

Grass == "Grass"

Dirt == "Dirt"

Stone == "Stone"

BlockType == {Air, Grass, Dirt, Stone}

Volume == CHUNK_SIZE * CHUNK_SIZE * CHUNK_HEIGHT

\* Every local coordinate from one step below to one step above the chunk.
Box == (-1 .. CHUNK_SIZE) \X (-1 .. CHUNK_HEIGHT) \X (-1 .. CHUNK_SIZE)

\* The coordinates of the chunk's cells.
Cube == (0 .. (CHUNK_SIZE - 1)) \X (0 .. (CHUNK_HEIGHT - 1)) \X (0 .. (CHUNK_SIZE - 1))

Faces == 0 .. 5

\* Inputs of the single-chunk specification: one chunk, writes to the
\* 2 x 2 x 2 block of cells at the origin and to the far corner, and calls
\* with coordinates off each side of the chunk.
ChunkCoords == {<<0, 0>>}

SetTypes == {Air, Stone}

SetCells ==
    {c \in Cube : c[1] <= 1 /\ c[2] <= 1 /\ c[3] <= 1}
        \cup {<<CHUNK_SIZE - 1, CHUNK_HEIGHT - 1, CHUNK_SIZE - 1>>}

OutCells ==
    { <<-1, 0, 0>>, <<CHUNK_SIZE, 0, 0>>, <<0, -1, 0>>, <<0, CHUNK_HEIGHT, 0>>,
      <<0, 0, -1>>, <<0, 0, CHUNK_SIZE>>, <<-1, -1, -1>>,
      <<CHUNK_SIZE, CHUNK_HEIGHT, CHUNK_SIZE>> }

\* Inputs of the two-chunk specification: two chunks adjacent along x, and
\* writes to the cells on either side of their common boundary.
WorldCoords == {<<0, 0>>, <<1, 0>>}

WorldTypes == {Air, Stone}

WorldCells == {<<CHUNK_SIZE - 1, 0, 0>>, <<0, 0, 0>>, <<CHUNK_SIZE, 0, 0>>}

\* Chunk coordinates of the terrain runs: next to the origin, where the
\* height function is above the chunk's top, and in a valley of it.
TerrainCoords == {<<0, -1>>, <<275, 165>>}

TerrainTypes == {Air, Stone}

TerrainCells == {<<0, 0, 0>>, <<CHUNK_SIZE - 1, CHUNK_HEIGHT - 2, CHUNK_SIZE - 1>>}

\* World coordinates the height function is probed at.
HeightInputs ==
    {-131, -1, 0, 1, 540, 550, 551} \X {-2, -1, 0, 1, 300, 330, 131070}

\* Chunk coordinates the World is asked for: by the origin on the negative
\* side, the same 65536 chunks further along z, and the valley.
LifeCoords == {<<0, -1>>, <<0, 65535>>, <<275, 165>>}

LifeTypes == {Air, Stone}

\* Local cells World::getBlock and World::setBlock are called at, the last
\* one above the chunk.
LifeLocal ==
    { <<0, 0, 0>>,
      <<CHUNK_SIZE - 1, CHUNK_HEIGHT - 1, CHUNK_SIZE - 1>>,
      <<0, CHUNK_HEIGHT, 0>> }

\* The same, as world coordinates in each of the chunks.
LifeCells ==
    { <<cc[1] * CHUNK_SIZE + l[1], l[2], cc[2] * CHUNK_SIZE + l[3]>> :
        cc \in LifeCoords, l \in LifeLocal }

VARIABLES
    chunks,   \* live Chunk objects, keyed by <<chunkX, chunkZ>> or by chunkKey
    gl,       \* OpenGL objects: vertex array names, buffer names and their data
    writes,   \* in-bounds setBlock calls made so far
    lastOp,   \* the last call made: operation, chunk, in bounds or not, rebuilt or not
    game,     \* the Game object of src/game.cpp: isRunning, isInitialized, window size
    loop      \* where Game::run stands, its frames, and the last Game call's result

vars == <<chunks, gl, writes, lastOp, game, loop>>

(* ------------------------------------------------------------------ *)
(* chunk.h: static helpers                                              *)
(* ------------------------------------------------------------------ *)

GetIndex(x, y, z) ==
    y * (CHUNK_SIZE_X * CHUNK_SIZE_Z) + z * CHUNK_SIZE_X + x

IsInBounds(x, y, z) ==
    /\ x >= 0 /\ x < CHUNK_SIZE_X
    /\ y >= 0 /\ y < CHUNK_SIZE_Y
    /\ z >= 0 /\ z < CHUNK_SIZE_Z

(* ------------------------------------------------------------------ *)
(* chunk.cpp: block storage                                             *)
(* ------------------------------------------------------------------ *)

isInBounds(x, y, z) ==
    /\ x >= 0 /\ x < CHUNK_SIZE
    /\ y >= 0 /\ y < CHUNK_HEIGHT
    /\ z >= 0 /\ z < CHUNK_SIZE

\* x + size * (z + size * y), the arithmetic of getBlockIndex.
blockIndexFor(size, x, y, z) == x + size * (z + size * y)

\* getBlockIndex with the height as the stride of y.
getBlockIndex_heightStride(x, y, z) == x + CHUNK_SIZE * (z + CHUNK_HEIGHT * y)

getBlockIndex(x, y, z) == blockIndexFor(CHUNK_SIZE, x, y, z)

\* Chunk::Chunk: all blocks Air, mesh dirty and not built, no GL names.
Chunk(cx, cy, cz) ==
    [ chunkX      |-> cx,
      chunkY      |-> cy,
      chunkZ      |-> cz,
      blocks      |-> [i \in 0 .. (Volume - 1) |-> Air],
      meshDirty   |-> TRUE,
      meshBuilt   |-> FALSE,
      vao         |-> 0,
      vbo         |-> 0,
      ebo         |-> 0,
      vertexCount |-> 0,
      indexCount  |-> 0 ]

getBlock(c, x, y, z) ==
    IF isInBounds(x, y, z)
    THEN c.blocks[getBlockIndex(x, y, z)]
    ELSE Air

\* setBlock indexing the array with x and z exchanged.
setBlock_swappedXZ(c, x, y, z, type) ==
    IF isInBounds(x, y, z)
    THEN [c EXCEPT !.blocks[getBlockIndex(z, y, x)] = type,
                   !.meshDirty = TRUE]
    ELSE c

\* setBlock raising the dirty flag outside the bounds check.
setBlock_dirtyOutside(c, x, y, z, type) ==
    IF isInBounds(x, y, z)
    THEN [c EXCEPT !.blocks[getBlockIndex(x, y, z)] = type,
                   !.meshDirty = TRUE]
    ELSE [c EXCEPT !.meshDirty = TRUE]

\* setBlock raising the dirty flag only when the stored type changes.
setBlock_dirtyIfChanged(c, x, y, z, type) ==
    IF isInBounds(x, y, z)
    THEN [c EXCEPT !.blocks[getBlockIndex(x, y, z)] = type,
                   !.meshDirty = c.meshDirty
                                 \/ c.blocks[getBlockIndex(x, y, z)] # type]
    ELSE c

\* setBlock indexing the array without the height of the cell.
setBlock_groundLayer(c, x, y, z, type) ==
    IF isInBounds(x, y, z)
    THEN [c EXCEPT !.blocks[getBlockIndex(x, 0, z)] = type,
                   !.meshDirty = TRUE]
    ELSE c

setBlock(c, x, y, z, type) ==
    IF isInBounds(x, y, z)
    THEN [c EXCEPT !.blocks[getBlockIndex(x, y, z)] = type,
                   !.meshDirty = TRUE]
    ELSE c

markDirty(c) == [c EXCEPT !.meshDirty = TRUE]

(* ------------------------------------------------------------------ *)
(* Terrain generation (chunk.cpp)                                       *)
(*                                                                      *)
(* generateHeight works on floats.  Here an angle is an integer number  *)
(* of thousandths of a radian and a height an integer number of        *)
(* thousandths of a block; std::sin is Bhaskara's rational              *)
(* approximation, within 0.002 of the sine.                             *)
(* ------------------------------------------------------------------ *)

\* Thousandths per unit.
Milli == 1000

\* pi, in thousandths.
PiMilli == 3142

\* std::sin of an angle a given in thousandths of a radian, in thousandths.
sinMilli(a) ==
    LET r == a % (2 * PiMilli)
        h == IF r < PiMilli THEN r ELSE r - PiMilli
        p == (h * (PiMilli - h)) \div 100
        v == (16 * Milli * p) \div ((5 * PiMilli * PiMilli) \div 100 - 4 * p)
    IN  IF r < PiMilli THEN v ELSE -v

\* std::cos, likewise.
cosMilli(a) == sinMilli(a + PiMilli \div 2)

\* static_cast<int> of a float given in thousandths: truncation toward zero.
truncToInt(m) == IF m >= 0 THEN m \div Milli ELSE -((-m) \div Milli)

\* std::clamp(v, lo, hi).
clamp(v, lo, hi) == IF v < lo THEN lo ELSE IF hi < v THEN hi ELSE v

\* The float `height` of generateHeight before the cast, in thousandths.
heightSum(x, z) ==
    40 * Milli
        + 15 * sinMilli((x * Milli) \div 50)
        + 15 * cosMilli((z * Milli) \div 100)
        + 10 * sinMilli(((x + z) * Milli) \div 75)

\* generateHeight without the clamp.
generateHeight_noClamp(c, x, z) == truncToInt(heightSum(x, z))

\* Chunk::generateHeight, a const member function: c is the chunk it is
\* called on, x and z the world coordinates.
generateHeight(c, x, z) ==
    clamp(truncToInt(heightSum(x, z)), 1, CHUNK_HEIGHT - 1)

\* The block type generate picks for height y of a column of the given
\* terrain height.
columnBlock_stoneOffByOne(y, height) ==
    IF y <= height - 3 THEN Stone
    ELSE IF y < height THEN Dirt
    ELSE IF y = height THEN Grass
    ELSE Air

\* columnBlock ending the Dirt one cell early.
columnBlock_gapBelowGrass(y, height) ==
    IF y < height - 3 THEN Stone
    ELSE IF y < height - 1 THEN Dirt
    ELSE IF y = height THEN Grass
    ELSE Air

columnBlock(y, height) ==
    IF y < height - 3 THEN Stone
    ELSE IF y < height THEN Dirt
    ELSE IF y = height THEN Grass
    ELSE Air

\* The loops of generate from cell number k on, k counting x outermost, then
\* z, then y.
RECURSIVE generateLoop(_, _)
generateLoop(c, k) ==
    IF k >= Volume THEN c
    ELSE LET y == k % CHUNK_HEIGHT
             z == (k \div CHUNK_HEIGHT) % CHUNK_SIZE
             x == k \div (CHUNK_HEIGHT * CHUNK_SIZE)
             height == generateHeight(c, c.chunkX * CHUNK_SIZE + x,
                                         c.chunkZ * CHUNK_SIZE + z)
         IN  CHOOSE r \in { generateLoop(c1, k + 1) :
                            c1 \in {setBlock(c, x, y, z, columnBlock(y, height))} } : TRUE

\* generate with the height taken at the local, not the world, coordinate.
generate_localHeight(c) ==
    [c EXCEPT !.blocks =
         [i \in 0 .. (Volume - 1) |->
             LET x == i % CHUNK_SIZE
                 z == (i \div CHUNK_SIZE) % CHUNK_SIZE
                 y == i \div (CHUNK_SIZE * CHUNK_SIZE)
             IN  columnBlock(y, generateHeight(c, x, z))],
       !.meshDirty = TRUE]

\* Chunk::generate.
generate(c) == [generateLoop(c, 0) EXCEPT !.meshDirty = TRUE]

(* ------------------------------------------------------------------ *)
(* chunk.cpp: mesh construction                                         *)
(* ------------------------------------------------------------------ *)

\* Texture atlas cell of a block type, times TexScale.
getTextureCoord(blockType, face) ==
    CASE blockType = Grass -> <<0, 0>>
      [] blockType = Dirt  -> <<2, 0>>
      [] blockType = Stone -> <<1, 0>>
      [] OTHER             -> <<0, 0>>

\* The 4 vertices (8 floats each) of one face, in the code's order.
faceVertices(x, y, z, face, texX, texY) ==
    LET u0 == texX
        u1 == texX + TexScale
        v0 == texY
        v1 == texY + TexScale
    IN  CASE face = 0 ->
               << x,     y,     z + 1, u0, v0, 0, 0, 1,
                  x + 1, y,     z + 1, u1, v0, 0, 0, 1,
                  x + 1, y + 1, z + 1, u1, v1, 0, 0, 1,
                  x,     y + 1, z + 1, u0, v1, 0, 0, 1 >>
          [] face = 1 ->
               << x + 1, y,     z,     u0, v0, 0, 0, -1,
                  x,     y,     z,     u1, v0, 0, 0, -1,
                  x,     y + 1, z,     u1, v1, 0, 0, -1,
                  x + 1, y + 1, z,     u0, v1, 0, 0, -1 >>
          [] face = 2 ->
               << x,     y,     z,     u0, v0, -1, 0, 0,
                  x,     y,     z + 1, u1, v0, -1, 0, 0,
                  x,     y + 1, z + 1, u1, v1, -1, 0, 0,
                  x,     y + 1, z,     u0, v1, -1, 0, 0 >>
          [] face = 3 ->
               << x + 1, y,     z + 1, u0, v0, 1, 0, 0,
                  x + 1, y,     z,     u1, v0, 1, 0, 0,
                  x + 1, y + 1, z,     u1, v1, 1, 0, 0,
                  x + 1, y + 1, z + 1, u0, v1, 1, 0, 0 >>
          [] face = 4 ->
               << x,     y,     z + 1, u0, v0, 0, -1, 0,
                  x,     y,     z,     u1, v0, 0, -1, 0,
                  x + 1, y,     z,     u1, v1, 0, -1, 0,
                  x + 1, y,     z + 1, u0, v1, 0, -1, 0 >>
          [] face = 5 ->
               << x,     y + 1, z,     u0, v0, 0, 1, 0,
                  x,     y + 1, z + 1, u1, v0, 0, 1, 0,
                  x + 1, y + 1, z + 1, u1, v1, 0, 1, 0,
                  x + 1, y + 1, z,     u0, v1, 0, 1, 0 >>
          [] OTHER -> << >>

\* addFace counting a vertex every 3 floats when it takes the base index.
addFace_baseByPosition(x, y, z, face, blockType, m) ==
    LET baseIndex == Len(m.vertices) \div 3
        tex       == getTextureCoord(blockType, face)
    IN  [ vertices |-> m.vertices \o faceVertices(x, y, z, face, tex[1], tex[2]),
          indices  |-> m.indices \o << baseIndex, baseIndex + 1, baseIndex + 2,
                                       baseIndex, baseIndex + 2, baseIndex + 3 >> ]

\* addFace listing the corners of each triangle in the opposite order.
addFace_clockwise(x, y, z, face, blockType, m) ==
    LET baseIndex == Len(m.vertices) \div FloatsPerVertex
        tex       == getTextureCoord(blockType, face)
    IN  [ vertices |-> m.vertices \o faceVertices(x, y, z, face, tex[1], tex[2]),
          indices  |-> m.indices \o << baseIndex, baseIndex + 2, baseIndex + 1,
                                       baseIndex, baseIndex + 3, baseIndex + 2 >> ]

\* m is the pair of buffers under construction: [vertices, indices].
addFace(x, y, z, face, blockType, m) ==
    LET baseIndex == Len(m.vertices) \div FloatsPerVertex
        tex       == getTextureCoord(blockType, face)
    IN  [ vertices |-> m.vertices \o faceVertices(x, y, z, face, tex[1], tex[2]),
          indices  |-> m.indices \o << baseIndex, baseIndex + 1, baseIndex + 2,
                                       baseIndex, baseIndex + 2, baseIndex + 3 >> ]

\* neighborOf with the front and back faces looking the wrong way.
neighborOf_frontBackSwapped(x, y, z, face) ==
    CASE face = 0 -> <<x, y, z - 1>>
      [] face = 1 -> <<x, y, z + 1>>
      [] face = 2 -> <<x - 1, y, z>>
      [] face = 3 -> <<x + 1, y, z>>
      [] face = 4 -> <<x, y - 1, z>>
      [] face = 5 -> <<x, y + 1, z>>
      [] OTHER    -> <<x, y, z>>

\* The cell addFaceIfExposed looks at for a face.
neighborOf(x, y, z, face) ==
    CASE face = 0 -> <<x, y, z + 1>>
      [] face = 1 -> <<x, y, z - 1>>
      [] face = 2 -> <<x - 1, y, z>>
      [] face = 3 -> <<x + 1, y, z>>
      [] face = 4 -> <<x, y - 1, z>>
      [] face = 5 -> <<x, y + 1, z>>
      [] OTHER    -> <<x, y, z>>

addFaceIfExposed(c, x, y, z, blockType, face, m) ==
    LET n             == neighborOf(x, y, z, face)
        neighborBlock == getBlock(c, n[1], n[2], n[3])
    IN  IF neighborBlock # Air
        THEN m
        ELSE addFace(x, y, z, face, blockType, m)

\* The body of the block loop of buildMesh for one cell: nothing for an Air
\* block, else the six addFaceIfExposed calls, faces 0 to 5 in turn.
meshCell(c, x, y, z, blockType, m) ==
    IF blockType = Air
    THEN m
    ELSE addFaceIfExposed(c, x, y, z, blockType, 5,
         addFaceIfExposed(c, x, y, z, blockType, 4,
         addFaceIfExposed(c, x, y, z, blockType, 3,
         addFaceIfExposed(c, x, y, z, blockType, 2,
         addFaceIfExposed(c, x, y, z, blockType, 1,
         addFaceIfExposed(c, x, y, z, blockType, 0, m))))))

\* The block loop of buildMesh from cell number k on, m being the buffers so
\* far.  k counts the cells in the loop's order: x outermost, then y, then z.
RECURSIVE meshLoop(_, _, _)
meshLoop(c, k, m) ==
    IF k >= Volume
    THEN m
    ELSE LET z == k % CHUNK_SIZE
             y == (k \div CHUNK_SIZE) % CHUNK_HEIGHT
             x == k \div (CHUNK_SIZE * CHUNK_HEIGHT)
         IN  CHOOSE r \in { meshLoop(c, k + 1, m1) :
                            m1 \in {meshCell(c, x, y, z, getBlock(c, x, y, z), m)} } :
                 TRUE

\* glGen*: the lowest name not in use.
glGen(used) ==
    CHOOSE n \in 1 .. (Cardinality(used) + 1) :
        /\ n \notin used
        /\ \A k \in 1 .. (n - 1) : k \in used

\* glBufferData on buffer name b.
glBufferData(bufs, b, data) ==
    [n \in (DOMAIN bufs) \cup {b} |-> IF n = b THEN data ELSE bufs[n]]

\* glDeleteBuffers / glDeleteVertexArrays.
glDelete(g, vaoName, bufNames) ==
    [ vaos |-> g.vaos \ {vaoName},
      bufs |-> [n \in (DOMAIN g.bufs) \ bufNames |-> g.bufs[n]] ]

\* uploadMesh counting a vertex every 3 floats (positions only).
uploadMesh_positionsOnly(c, g, m, vao1, vbo1, ebo1) ==
    [ chunk |-> [c EXCEPT !.vertexCount = Len(m.vertices) \div 3,
                          !.indexCount  = Len(m.indices),
                          !.vao = vao1,
                          !.vbo = vbo1,
                          !.ebo = ebo1,
                          !.meshDirty = FALSE,
                          !.meshBuilt = TRUE],
      gl |-> [ vaos |-> g.vaos \cup {vao1},
               bufs |-> glBufferData(glBufferData(g.bufs, vbo1, m.vertices),
                                     ebo1, m.indices) ],
      rebuilt |-> TRUE ]

\* The tail of buildMesh, from the counts on: m holds the vertices and the
\* indices the block loop produced.
uploadMesh(c, g, m, vao1, vbo1, ebo1) ==
    [ chunk |-> [c EXCEPT !.vertexCount = Len(m.vertices) \div FloatsPerVertex,
                          !.indexCount  = Len(m.indices),
                          !.vao = vao1,
                          !.vbo = vbo1,
                          !.ebo = ebo1,
                          !.meshDirty = FALSE,
                          !.meshBuilt = TRUE],
      gl |-> [ vaos |-> g.vaos \cup {vao1},
               bufs |-> glBufferData(glBufferData(g.bufs, vbo1, m.vertices),
                                     ebo1, m.indices) ],
      rebuilt |-> TRUE ]

\* buildMesh generating new GL names at every recomputation.
buildMesh_alwaysGen(c, g) ==
    IF ~c.meshDirty /\ c.meshBuilt
    THEN [chunk |-> c, gl |-> g, rebuilt |-> FALSE]
    ELSE uploadMesh(c, g,
                    meshLoop(c, 0, [vertices |-> << >>, indices |-> << >>]),
                    glGen(g.vaos),
                    glGen(DOMAIN g.bufs),
                    glGen((DOMAIN g.bufs) \cup {glGen(DOMAIN g.bufs)}))

\* Chunk::buildMesh on chunk c with GL store g: the chunk and store after
\* the call, and whether the buffers were recomputed.
buildMesh(c, g) ==
    IF ~c.meshDirty /\ c.meshBuilt
    THEN [chunk |-> c, gl |-> g, rebuilt |-> FALSE]
    ELSE IF ~c.meshBuilt
         THEN uploadMesh(c, g,
                         meshLoop(c, 0, [vertices |-> << >>, indices |-> << >>]),
                         glGen(g.vaos),
                         glGen(DOMAIN g.bufs),
                         glGen((DOMAIN g.bufs) \cup {glGen(DOMAIN g.bufs)}))
         ELSE uploadMesh(c, g,
                         meshLoop(c, 0, [vertices |-> << >>, indices |-> << >>]),
                         c.vao, c.vbo, c.ebo)

\* Chunk::update.
update(c, g) ==
    IF c.meshDirty
    THEN buildMesh(c, g)
    ELSE [chunk |-> c, gl |-> g, rebuilt |-> FALSE]

\* cleanup deleting the vertex buffer and the vertex array, not the index
\* buffer.
cleanup_keepsEbo(c, g) ==
    IF c.meshBuilt
    THEN [ chunk |-> [c EXCEPT !.meshBuilt = FALSE],
           gl    |-> glDelete(g, c.vao, {c.vbo}) ]
    ELSE [chunk |-> c, gl |-> g]

\* cleanup deleting whatever the fields name, built or not.
cleanup_unconditional(c, g) ==
    [ chunk |-> [c EXCEPT !.meshBuilt = FALSE],
      gl    |-> glDelete(g, c.vao, {c.vbo, c.ebo}) ]

\* Chunk::cleanup: the names stay in the fields, the objects are deleted.
cleanup(c, g) ==
    IF c.meshBuilt
    THEN [ chunk |-> [c EXCEPT !.meshBuilt = FALSE],
           gl    |-> glDelete(g, c.vao, {c.vbo, c.ebo}) ]
    ELSE [chunk |-> c, gl |-> g]

(* ------------------------------------------------------------------ *)
(* World (world.h)                                                      *)
(*                                                                      *)
(* world.h declares World and fixes its storage: a map from a long long *)
(* key to the owned Chunk, the key packed as                            *)
(* (chunkX << 16) | (chunkZ & 0xFFFF).  The bodies of its methods are   *)
(* not part of the sources; they follow the specification's section on  *)
(* World.  A world w is a function from keys to chunks.                 *)
(* ------------------------------------------------------------------ *)

\* 0xFFFF + 1, the number of values of the 16-bit field of the key.
KeyRange == 65536

\* chunkKey with chunkZ packed as it is, sign included.
chunkKey_signedZ(chunkX, chunkZ) == chunkX * KeyRange + chunkZ

\* World::chunkKey: (chunkX << 16) | (chunkZ & 0xFFFF), as a long long.
chunkKey(chunkX, chunkZ) == chunkX * KeyRange + (chunkZ % KeyRange)

\* Chunk coordinate of a world coordinate for chunks of the given edge
\* length, by C++ integer division, which truncates toward zero.
chunkCoordFor_truncating(size, worldCoord) ==
    IF worldCoord >= 0 THEN worldCoord \div size ELSE -((-worldCoord) \div size)

\* Chunk coordinate of a world coordinate: floor division by the edge length.
chunkCoordFor(size, worldCoord) == worldCoord \div size

\* Local coordinate of a world coordinate: floor modulo the edge length.
localCoordFor(size, worldCoord) == worldCoord % size

\* World::worldToChunkCoord and World::worldToLocalCoord.
worldToChunkCoord(worldCoord) == chunkCoordFor(CHUNK_SIZE, worldCoord)

worldToLocalCoord(worldCoord) == localCoordFor(CHUNK_SIZE, worldCoord)

\* World::hasChunk.
hasChunk(w, chunkX, chunkZ) == chunkKey(chunkX, chunkZ) \in DOMAIN w

\* World::getChunk: the resident chunk under the key, or a new chunk,
\* generated and inserted.  The world afterwards; the chunk returned is the
\* one under the key.
getChunk(w, chunkX, chunkZ) ==
    IF hasChunk(w, chunkX, chunkZ)
    THEN w
    ELSE w @@ (chunkKey(chunkX, chunkZ) :> generate(Chunk(chunkX, 0, chunkZ)))

\* World::loadChunk.
loadChunk(w, chunkX, chunkZ) == getChunk(w, chunkX, chunkZ)

\* Chunk::~Chunk, run when the map entry that owns the chunk goes.
destroyChunk(c, g) == cleanup(c, g).gl

\* World::unloadChunk: the entry under the key is erased and its chunk
\* destroyed.
unloadChunk(w, g, chunkX, chunkZ) ==
    IF hasChunk(w, chunkX, chunkZ)
    THEN [ world  |-> [k \in DOMAIN w \ {chunkKey(chunkX, chunkZ)} |-> w[k]],
           gl     |-> destroyChunk(w[chunkKey(chunkX, chunkZ)], g),
           result |-> TRUE ]
    ELSE [world |-> w, gl |-> g, result |-> FALSE]

\* The GL store after the chunks under the given keys are destroyed.
RECURSIVE destroyAll(_, _, _)
destroyAll(w, keys, g) ==
    IF keys = {} THEN g
    ELSE LET k == CHOOSE k \in keys : \A j \in keys : k <= j
         IN  destroyAll(w, keys \ {k}, destroyChunk(w[k], g))

\* World::unloadAll.
unloadAll(w, g) == [world |-> << >>, gl |-> destroyAll(w, DOMAIN w, g)]

\* World::getBlock.
World_getBlock(w, x, y, z) ==
    IF hasChunk(w, worldToChunkCoord(x), worldToChunkCoord(z))
    THEN getBlock(w[chunkKey(worldToChunkCoord(x), worldToChunkCoord(z))],
                  worldToLocalCoord(x), y, worldToLocalCoord(z))
    ELSE Air

\* World::setBlock, on the world w1 that getChunk leaves.
setBlockIn(w1, x, y, z, blockID) ==
    [w1 EXCEPT ![chunkKey(worldToChunkCoord(x), worldToChunkCoord(z))] =
        setBlock(@, worldToLocalCoord(x), y, worldToLocalCoord(z), blockID)]

World_setBlock(w, x, y, z, blockID) ==
    setBlockIn(getChunk(w, worldToChunkCoord(x), worldToChunkCoord(z)),
               x, y, z, blockID)

(* ------------------------------------------------------------------ *)
(* Game (game.cpp)                                                      *)
(*                                                                      *)
(* initializeGraphics, initializeInput and initializeGameLogic return   *)
(* true and throw nothing; Game::cleanup changes no member.  The bodies *)
(* of handleInput, updateGameLogic and of the three steps of render are *)
(* left to be filled in: what they may do to the Game object is call    *)
(* exit() or shutdown().                                                *)
(* ------------------------------------------------------------------ *)

\* Game::Game.
Game ==
    [ isRunning     |-> FALSE,
      isInitialized |-> FALSE,
      windowWidth   |-> 800,
      windowHeight  |-> 600 ]

\* initialize returning true and setting the flag whatever the state.
Game_initialize_unguarded(g) ==
    [game |-> [g EXCEPT !.isInitialized = TRUE], result |-> TRUE]

\* Game::initialize: the object after the call and the value returned.
Game_initialize(g) ==
    IF g.isInitialized
    THEN [game |-> g, result |-> FALSE]
    ELSE [game |-> [g EXCEPT !.isInitialized = TRUE], result |-> TRUE]

\* Game::shutdown.
Game_shutdown(g) ==
    IF ~g.isInitialized
    THEN g
    ELSE [g EXCEPT !.isRunning = FALSE, !.isInitialized = FALSE]

\* Game::exit.
Game_exit(g) == [g EXCEPT !.isRunning = FALSE]

\* What the code of a frame calls on the Game object.
Hooks == {"none", "exit", "shutdown"}

Game_hook(g, h) ==
    CASE h = "exit"     -> Game_exit(g)
      [] h = "shutdown" -> Game_shutdown(g)
      [] OTHER          -> g

\* update returning true whatever isRunning is.
Game_update_alwaysTrue(g, h) ==
    [game |-> Game_hook(g, h), result |-> TRUE]

\* Game::update, its input handling and game logic calling h: the object
\* after the call and the value returned.
Game_update(g, h) ==
    [game |-> Game_hook(g, h), result |-> Game_hook(g, h).isRunning]

\* Game::render.
Game_render(g, h) ==
    [game |-> Game_hook(g, h), result |-> TRUE]

\* Game::run up to its loop: refused (result FALSE) when not initialized,
\* otherwise isRunning is set and the loop entered.
Game_run(g) ==
    IF ~g.isInitialized
    THEN [game |-> g, entered |-> FALSE]
    ELSE [game |-> [g EXCEPT !.isRunning = TRUE], entered |-> TRUE]

(* ------------------------------------------------------------------ *)
(* The state machine                                                    *)
(* ------------------------------------------------------------------ *)

\* The last call: its name, its chunk, whether a setBlock was in bounds and
\* whether a buildMesh or update recomputed the buffers.
Op(name, cc, inb, rebuilt) ==
    [op |-> name, cc |-> cc, inb |-> inb, rebuilt |-> rebuilt]

\* Where Game::run stands (idle: not in run; while: at the loop's test;
\* update, render: about to call them), the last Game call made and what it
\* returned, and the update and render calls of the current run.
Call(pc, op, result, updates, renders) ==
    [pc |-> pc, op |-> op, result |-> result,
     updates |-> updates, renders |-> renders]

Init ==
    /\ chunks = << >>
    /\ gl = [vaos |-> {}, bufs |-> << >>]
    /\ writes = 0
    /\ lastOp = Op("none", <<0, 0>>, FALSE, FALSE)
    /\ game = Game
    /\ loop = Call("idle", "Game", "void", 0, 0)

\* A Chunk is constructed at a coordinate that holds none.
NewChunk(cc) ==
    /\ cc \notin DOMAIN chunks
    /\ chunks' = chunks @@ (cc :> Chunk(cc[1], 0, cc[2]))
    /\ lastOp' = Op("Chunk", cc, FALSE, FALSE)
    /\ UNCHANGED <<gl, writes>>
    /\ UNCHANGED <<game, loop>>

SetBlock(cc, x, y, z, t) ==
    /\ cc \in DOMAIN chunks
    /\ isInBounds(x, y, z) => writes < MaxWrites
    /\ chunks' = [chunks EXCEPT ![cc] = setBlock(chunks[cc], x, y, z, t)]
    /\ writes' = IF isInBounds(x, y, z) THEN writes + 1 ELSE writes
    /\ lastOp' = Op("setBlock", cc, isInBounds(x, y, z), FALSE)
    /\ UNCHANGED gl
    /\ UNCHANGED <<game, loop>>

MarkDirty(cc) ==
    /\ cc \in DOMAIN chunks
    /\ chunks' = [chunks EXCEPT ![cc] = markDirty(chunks[cc])]
    /\ lastOp' = Op("markDirty", cc, FALSE, FALSE)
    /\ UNCHANGED <<gl, writes>>
    /\ UNCHANGED <<game, loop>>

BuildMesh(cc) ==
    /\ cc \in DOMAIN chunks
    /\ \E r \in {buildMesh(chunks[cc], gl)} :
           /\ chunks' = [chunks EXCEPT ![cc] = r.chunk]
           /\ gl' = r.gl
           /\ lastOp' = Op("buildMesh", cc, FALSE, r.rebuilt)
    /\ UNCHANGED writes
    /\ UNCHANGED <<game, loop>>

Update(cc) ==
    /\ cc \in DOMAIN chunks
    /\ \E r \in {update(chunks[cc], gl)} :
           /\ chunks' = [chunks EXCEPT ![cc] = r.chunk]
           /\ gl' = r.gl
           /\ lastOp' = Op("update", cc, FALSE, r.rebuilt)
    /\ UNCHANGED writes
    /\ UNCHANGED <<game, loop>>

Cleanup(cc) ==
    /\ cc \in DOMAIN chunks
    /\ \E r \in {cleanup(chunks[cc], gl)} :
           /\ chunks' = [chunks EXCEPT ![cc] = r.chunk]
           /\ gl' = r.gl
    /\ lastOp' = Op("cleanup", cc, FALSE, FALSE)
    /\ UNCHANGED writes
    /\ UNCHANGED <<game, loop>>

\* One chunk, written over its cells.
Next ==
    \/ \E cc \in ChunkCoords : NewChunk(cc)
    \/ \E cc \in ChunkCoords, c \in SetCells \cup OutCells, t \in SetTypes :
          SetBlock(cc, c[1], c[2], c[3], t)
    \/ \E cc \in ChunkCoords : MarkDirty(cc)
    \/ \E cc \in ChunkCoords : BuildMesh(cc)
    \/ \E cc \in ChunkCoords : Update(cc)
    \/ \E cc \in ChunkCoords : Cleanup(cc)

Spec == Init /\ [][Next]_vars

\* Two adjacent chunks, written at their common boundary.
NextWorld ==
    \/ \E cc \in WorldCoords : NewChunk(cc)
    \/ \E cc \in WorldCoords, c \in WorldCells, t \in WorldTypes :
          SetBlock(cc, c[1], c[2], c[3], t)
    \/ \E cc \in WorldCoords : MarkDirty(cc)
    \/ \E cc \in WorldCoords : BuildMesh(cc)
    \/ \E cc \in WorldCoords : Update(cc)
    \/ \E cc \in WorldCoords : Cleanup(cc)

SpecWorld == Init /\ [][NextWorld]_vars

\* generate is called on a chunk, new or not.
Generate(cc) ==
    /\ cc \in DOMAIN chunks
    /\ chunks' = [chunks EXCEPT ![cc] = generate(chunks[cc])]
    /\ lastOp' = Op("generate", cc, FALSE, FALSE)
    /\ UNCHANGED <<gl, writes>>
    /\ UNCHANGED <<game, loop>>

\* Two chunks far apart, one where the terrain reaches the top of the chunk
\* and one in a valley, generated and written in any order.
NextTerrain ==
    \/ \E cc \in TerrainCoords : NewChunk(cc)
    \/ \E cc \in TerrainCoords : Generate(cc)
    \/ \E cc \in TerrainCoords, c \in TerrainCells, t \in TerrainTypes :
          SetBlock(cc, c[1], c[2], c[3], t)

SpecTerrain == Init /\ [][NextTerrain]_vars

\* World calls.  chunks is the World's map, keyed by chunkKey.
GetChunk(cx, cz) ==
    /\ chunks' = getChunk(chunks, cx, cz)
    /\ lastOp' = Op("getChunk", <<cx, cz>>, FALSE, FALSE)
    /\ UNCHANGED <<gl, writes>>
    /\ UNCHANGED <<game, loop>>

LoadChunk(cx, cz) ==
    /\ chunks' = loadChunk(chunks, cx, cz)
    /\ lastOp' = Op("loadChunk", <<cx, cz>>, FALSE, FALSE)
    /\ UNCHANGED <<gl, writes>>
    /\ UNCHANGED <<game, loop>>

UnloadChunk(cx, cz) ==
    /\ \E r \in {unloadChunk(chunks, gl, cx, cz)} :
           /\ chunks' = r.world
           /\ gl' = r.gl
    /\ lastOp' = Op("unloadChunk", <<cx, cz>>, FALSE, FALSE)
    /\ UNCHANGED writes
    /\ UNCHANGED <<game, loop>>

UnloadAll ==
    /\ \E r \in {unloadAll(chunks, gl)} :
           /\ chunks' = r.world
           /\ gl' = r.gl
    /\ lastOp' = Op("unloadAll", <<0, 0>>, FALSE, FALSE)
    /\ UNCHANGED writes
    /\ UNCHANGED <<game, loop>>

WorldGetBlock(x, y, z) ==
    /\ lastOp' = Op("World::getBlock",
                    <<worldToChunkCoord(x), worldToChunkCoord(z)>>,
                    World_getBlock(chunks, x, y, z) # Air, FALSE)
    /\ UNCHANGED <<chunks, gl, writes>>
    /\ UNCHANGED <<game, loop>>

WorldSetBlock(x, y, z, t) ==
    /\ writes < MaxWrites
    /\ chunks' = World_setBlock(chunks, x, y, z, t)
    /\ writes' = writes + 1
    /\ lastOp' = Op("World::setBlock",
                    <<worldToChunkCoord(x), worldToChunkCoord(z)>>,
                    isInBounds(worldToLocalCoord(x), y, worldToLocalCoord(z)),
                    FALSE)
    /\ UNCHANGED gl
    /\ UNCHANGED <<game, loop>>

\* A World over three chunk coordinates, two of them 65536 apart along z.
NextLife ==
    \/ \E cc \in LifeCoords : GetChunk(cc[1], cc[2])
    \/ \E cc \in LifeCoords : LoadChunk(cc[1], cc[2])
    \/ \E cc \in LifeCoords : UnloadChunk(cc[1], cc[2])
    \/ UnloadAll
    \/ \E p \in LifeCells : WorldGetBlock(p[1], p[2], p[3])
    \/ \E p \in LifeCells, t \in LifeTypes : WorldSetBlock(p[1], p[2], p[3], t)

SpecLife == Init /\ [][NextLife]_vars

(* ------------------------------------------------------------------ *)
(* Mesh lifecycle: construction, drawing and destruction of chunks      *)
(* ------------------------------------------------------------------ *)

\* Chunks of the lifecycle runs, and the cell and types written in them.
HandleCoords == {<<0, 0>>, <<1, 0>>}

HandleCells == {<<0, 0, 0>>}

HandleTypes == {Air, Stone}

\* Chunk::render: whether glDrawElements is issued, on which vertex array
\* and with how many indices.
render(c) ==
    IF ~c.meshBuilt
    THEN [drawn |-> FALSE, vao |-> 0, count |-> 0]
    ELSE [drawn |-> TRUE, vao |-> c.vao, count |-> c.indexCount]

Render(cc) ==
    /\ cc \in DOMAIN chunks
    /\ lastOp' = Op("render", cc, FALSE, FALSE)
    /\ UNCHANGED <<chunks, gl, writes>>
    /\ UNCHANGED <<game, loop>>

\* Chunk::~Chunk: the object is gone after its cleanup.  The record of the
\* call keeps what the object held.
Destroy(cc) ==
    /\ cc \in DOMAIN chunks
    /\ chunks' = [k \in (DOMAIN chunks) \ {cc} |-> chunks[k]]
    /\ gl' = destroyChunk(chunks[cc], gl)
    /\ lastOp' = [ op |-> "~Chunk", cc |-> cc, inb |-> FALSE,
                   rebuilt |-> FALSE,
                   built |-> chunks[cc].meshBuilt,
                   vao |-> chunks[cc].vao,
                   vbo |-> chunks[cc].vbo,
                   ebo |-> chunks[cc].ebo ]
    /\ UNCHANGED writes
    /\ UNCHANGED <<game, loop>>

\* Two chunks built, drawn, cleaned up and destroyed in any order.
NextHandles ==
    \/ \E cc \in HandleCoords : NewChunk(cc)
    \/ \E cc \in HandleCoords, c \in HandleCells, t \in HandleTypes :
          SetBlock(cc, c[1], c[2], c[3], t)
    \/ \E cc \in HandleCoords : MarkDirty(cc)
    \/ \E cc \in HandleCoords : BuildMesh(cc)
    \/ \E cc \in HandleCoords : Update(cc)
    \/ \E cc \in HandleCoords : Render(cc)
    \/ \E cc \in HandleCoords : Cleanup(cc)
    \/ \E cc \in HandleCoords : Destroy(cc)

SpecHandles == Init /\ [][NextHandles]_vars

\* Cells and types written before a mesh is built: two cells that touch, and
\* one away from them.
MeshCells ==
    { <<0, 0, 0>>, <<1, 0, 0>>,
      <<CHUNK_SIZE - 1, CHUNK_HEIGHT - 2, CHUNK_SIZE - 1>> }

MeshTypes == {Air, Grass, Stone}

\* One chunk, written and meshed.
NextMesh ==
    \/ \E cc \in ChunkCoords : NewChunk(cc)
    \/ \E cc \in ChunkCoords, c \in MeshCells, t \in MeshTypes :
          SetBlock(cc, c[1], c[2], c[3], t)
    \/ \E cc \in ChunkCoords : BuildMesh(cc)
    \/ \E cc \in ChunkCoords : Update(cc)

SpecMesh == Init /\ [][NextMesh]_vars

\* Calls on the Game object from outside its loop.
GameInitialize ==
    /\ loop.pc = "idle"
    /\ \E r \in {Game_initialize(game)} :
          /\ game' = r.game
          /\ loop' = Call("idle", "initialize",
                          IF r.result THEN "true" ELSE "false",
                          loop.updates, loop.renders)
    /\ UNCHANGED <<chunks, gl, writes, lastOp>>

GameShutdown ==
    /\ loop.pc = "idle"
    /\ game' = Game_shutdown(game)
    /\ loop' = Call("idle", "shutdown", "void", loop.updates, loop.renders)
    /\ UNCHANGED <<chunks, gl, writes, lastOp>>

GameExit ==
    /\ loop.pc = "idle"
    /\ game' = Game_exit(game)
    /\ loop' = Call("idle", "exit", "void", loop.updates, loop.renders)
    /\ UNCHANGED <<chunks, gl, writes, lastOp>>

\* Game::run is called: it returns false or reaches the test of its loop.
GameRun ==
    /\ loop.pc = "idle"
    /\ \E r \in {Game_run(game)} :
          /\ game' = r.game
          /\ loop' = IF r.entered
                     THEN Call("while", "run", "none", 0, 0)
                     ELSE Call("idle", "run", "false", loop.updates, loop.renders)
    /\ UNCHANGED <<chunks, gl, writes, lastOp>>

\* while (isRunning): the next frame starts or run returns true.
GameLoop ==
    /\ loop.pc = "while"
    /\ game.isRunning => loop.updates < MaxFrames
    /\ loop' = IF game.isRunning
               THEN [loop EXCEPT !.pc = "update"]
               ELSE [loop EXCEPT !.pc = "idle", !.result = "true"]
    /\ UNCHANGED <<chunks, gl, writes, lastOp, game>>

\* if (!update()) break;
GameUpdate(h) ==
    /\ loop.pc = "update"
    /\ \E r \in {Game_update(game, h)} :
          /\ game' = r.game
          /\ loop' = IF r.result
                     THEN [loop EXCEPT !.pc = "render",
                                       !.updates = loop.updates + 1]
                     ELSE [loop EXCEPT !.pc = "idle", !.result = "true",
                                       !.updates = loop.updates + 1]
    /\ UNCHANGED <<chunks, gl, writes, lastOp>>

\* if (!render()) break;
GameRender(h) ==
    /\ loop.pc = "render"
    /\ \E r \in {Game_render(game, h)} :
          /\ game' = r.game
          /\ loop' = IF r.result
                     THEN [loop EXCEPT !.pc = "while",
                                       !.renders = loop.renders + 1]
                     ELSE [loop EXCEPT !.pc = "idle", !.result = "true",
                                       !.renders = loop.renders + 1]
    /\ UNCHANGED <<chunks, gl, writes, lastOp>>

NextGame ==
    \/ GameInitialize
    \/ GameShutdown
    \/ GameExit
    \/ GameRun
    \/ GameLoop
    \/ \E h \in Hooks : GameUpdate(h)
    \/ \E h \in Hooks : GameRender(h)

SpecGame == Init /\ [][NextGame]_vars

(* ------------------------------------------------------------------ *)
(* Block storage: C1, C2, C3                                            *)
(* ------------------------------------------------------------------ *)

\* The non-air cells of chunk c.
Solid(c) == {p \in Cube : getBlock(c, p[1], p[2], p[3]) # Air}

\* C1: round trip.  In every reachable state of a chunk, whatever calls led
\* to it, setBlock(x,y,z,T) on an in-bounds coordinate followed by
\* getBlock(x,y,z) returns T, for every cell and every block type.
C1_RoundTrip ==
    \A cc \in DOMAIN chunks : \A p \in Cube : \A T \in BlockType :
        getBlock(setBlock(chunks[cc], p[1], p[2], p[3], T), p[1], p[2], p[3]) = T

\* A chunk whose mesh was built, then written once, in bounds, at the far
\* corner: the cell reads back the Stone that was written.
C1_Witness ==
    /\ lastOp.op = "setBlock" /\ lastOp.inb /\ writes = 1
    /\ lastOp.cc \in DOMAIN chunks
    /\ chunks[lastOp.cc].meshBuilt
    /\ getBlock(chunks[lastOp.cc],
                CHUNK_SIZE - 1, CHUNK_HEIGHT - 1, CHUNK_SIZE - 1) = Stone

\* C2: bounds safety.  In every reachable state of a chunk, for every
\* coordinate with a component outside the chunk (negative ones included),
\* getBlock returns Air and setBlock changes neither the stored blocks nor
\* the dirty flag (nor anything else of the chunk).
C2_BoundsSafety ==
    \A cc \in DOMAIN chunks : \A p \in Box \ Cube :
        /\ getBlock(chunks[cc], p[1], p[2], p[3]) = Air
        /\ \A T \in BlockType :
              LET after == setBlock(chunks[cc], p[1], p[2], p[3], T)
              IN  /\ after.blocks = chunks[cc].blocks
                  /\ after.meshDirty = chunks[cc].meshDirty
                  /\ after = chunks[cc]

\* An out-of-bounds setBlock was just made on a chunk that holds a block and
\* a clean, built mesh: the flag is still false.
C2_Witness ==
    /\ lastOp.op = "setBlock" /\ ~lastOp.inb
    /\ lastOp.cc \in DOMAIN chunks
    /\ ~chunks[lastOp.cc].meshDirty
    /\ chunks[lastOp.cc].meshBuilt
    /\ Solid(chunks[lastOp.cc]) # {}

\* The coordinate chunk.h's Y-major layout puts at index i.
CellAt(i) ==
    << i % CHUNK_SIZE_X,
       i \div (CHUNK_SIZE_X * CHUNK_SIZE_Z),
       (i \div CHUNK_SIZE_X) % CHUNK_SIZE_Z >>

\* At the game's dimensions: GetIndex maps the 16 x 256 x 16 cube one-to-one
\* onto 0 .. 65535, and the arithmetic of getBlockIndex gives the same index.
IndexBijectionAtGameSize ==
    /\ CHUNK_VOLUME = 65536
    /\ \A x \in 0 .. (CHUNK_SIZE_X - 1) : \A y \in 0 .. (CHUNK_SIZE_Y - 1) :
          \A z \in 0 .. (CHUNK_SIZE_Z - 1) :
              /\ IsInBounds(x, y, z)
              /\ GetIndex(x, y, z) \in 0 .. (CHUNK_VOLUME - 1)
              /\ CellAt(GetIndex(x, y, z)) = <<x, y, z>>
              /\ GetIndex(x, y, z) = y * 256 + z * 16 + x
              /\ blockIndexFor(CHUNK_SIZE_X, x, y, z) = GetIndex(x, y, z)
    /\ \A i \in 0 .. (CHUNK_VOLUME - 1) :
          /\ IsInBounds(CellAt(i)[1], CellAt(i)[2], CellAt(i)[3])
          /\ GetIndex(CellAt(i)[1], CellAt(i)[2], CellAt(i)[3]) = i

\* C3: index bijection.  The index of a chunk's storage is one-to-one from
\* the in-bounds coordinates onto the indices of the block array: no two
\* cells share an index and every index has exactly one cell.  It is the
\* Y-major index y*(size*size) + z*size + x, and at the game's dimensions
\* y*256 + z*16 + x of chunk.h equals x + 16*(z + 16*y) of chunk.cpp.
C3_IndexBijection ==
    /\ IndexBijectionAtGameSize
    /\ \A cc \in DOMAIN chunks :
          /\ \A i \in DOMAIN chunks[cc].blocks :
                Cardinality({p \in Cube : getBlockIndex(p[1], p[2], p[3]) = i}) = 1
          /\ \A p \in Cube :
                /\ getBlockIndex(p[1], p[2], p[3]) \in DOMAIN chunks[cc].blocks
                /\ getBlockIndex(p[1], p[2], p[3])
                      = p[2] * (CHUNK_SIZE * CHUNK_SIZE) + p[3] * CHUNK_SIZE + p[1]

\* One write, to cell (0,1,1): the block array holds it at the Y-major index
\* of that cell and nowhere else.
C3_Witness ==
    /\ lastOp.op = "setBlock" /\ lastOp.inb /\ writes = 1
    /\ lastOp.cc \in DOMAIN chunks
    /\ LET b == chunks[lastOp.cc].blocks
           i == 1 * (CHUNK_SIZE * CHUNK_SIZE) + 1 * CHUNK_SIZE + 0
       IN  /\ b[i] = Stone
           /\ \A j \in (DOMAIN b) \ {i} : b[j] = Air
           /\ getBlock(chunks[lastOp.cc], 0, 1, 1) = Stone

(* ------------------------------------------------------------------ *)
(* Dirty flag and rebuild: C4, C5, C6, C7                               *)
(* ------------------------------------------------------------------ *)

\* The buffers the block loop of buildMesh derives from c's blocks.
meshOf(c) == meshLoop(c, 0, [vertices |-> << >>, indices |-> << >>])

\* Chunk c holds live GL objects whose data is the mesh m.
HoldsMesh(c, m) ==
    /\ c.meshBuilt
    /\ c.vao \in gl.vaos
    /\ c.vbo \in DOMAIN gl.bufs
    /\ c.ebo \in DOMAIN gl.bufs
    /\ gl.bufs[c.vbo] = m.vertices
    /\ gl.bufs[c.ebo] = m.indices
    /\ c.vertexCount * FloatsPerVertex = Len(m.vertices)
    /\ c.indexCount = Len(m.indices)

\* C4: in every reachable state, dirty = false implies that the chunk's mesh
\* buffers exist and are the mesh the face-culling rule derives from the
\* current blocks.
C4_CleanImpliesCurrentMesh ==
    \A cc \in DOMAIN chunks :
        ~chunks[cc].meshDirty => HoldsMesh(chunks[cc], meshOf(chunks[cc]))

\* C5: every setBlock on an in-bounds coordinate leaves dirty = true, also
\* when it writes the type already stored and when the mesh is clean.
C5_SetBlockMarksDirty ==
    /\ \A cc \in DOMAIN chunks : \A p \in Cube : \A T \in BlockType :
          setBlock(chunks[cc], p[1], p[2], p[3], T).meshDirty
    /\ (lastOp.op = "setBlock" /\ lastOp.inb) => chunks[lastOp.cc].meshDirty

\* The only write made so far stored Air over Air on a chunk whose mesh had
\* been built: the chunk is dirty again.
C5_Witness ==
    /\ lastOp.op = "setBlock" /\ lastOp.inb /\ writes = 1
    /\ lastOp.cc \in DOMAIN chunks
    /\ Solid(chunks[lastOp.cc]) = {}
    /\ chunks[lastOp.cc].meshBuilt
    /\ chunks[lastOp.cc].vbo \in DOMAIN gl.bufs
    /\ chunks[lastOp.cc].meshDirty

\* C6: a call of buildMesh (directly or from update) recomputes the buffers
\* only when dirty was true, and then leaves dirty = false and built = true.
C6_RebuildOnlyWhenDirty ==
    [][ (lastOp'.op \in {"buildMesh", "update"} /\ lastOp'.rebuilt)
            => /\ chunks[lastOp'.cc].meshDirty
               /\ ~chunks'[lastOp'.cc].meshDirty
               /\ chunks'[lastOp'.cc].meshBuilt ]_vars

\* Two results of buildMesh agree on the chunk (counts, names, flags) and on
\* the GL store (names allocated and buffer contents).
SameMesh(r1, r2) ==
    /\ r2.chunk = r1.chunk
    /\ r2.gl = r1.gl
    /\ r2.gl.bufs[r2.chunk.vbo] = r1.gl.bufs[r1.chunk.vbo]
    /\ r2.gl.bufs[r2.chunk.ebo] = r1.gl.bufs[r1.chunk.ebo]
    /\ r2.gl.vaos = r1.gl.vaos
    /\ DOMAIN r2.gl.bufs = DOMAIN r1.gl.bufs

\* first is the result of a buildMesh call: a second call right after it, and
\* a second call that is made to recompute (markDirty, no block write), both
\* give the same buffers, counts and GL names.
SecondBuildSame(first) ==
    /\ SameMesh(first, buildMesh(first.chunk, first.gl))
    /\ ~buildMesh(first.chunk, first.gl).rebuilt
    /\ SameMesh(first, buildMesh(markDirty(first.chunk), first.gl))

Normals ==
    { <<0, 0, 1>>, <<0, 0, -1>>, <<-1, 0, 0>>, <<1, 0, 0>>, <<0, -1, 0>>, <<0, 1, 0>> }

Plus(p, n) == <<p[1] + n[1], p[2] + n[2], p[3] + n[3]>>

Min4(a, b, c, d) ==
    LET m1 == IF a < b THEN a ELSE b
        m2 == IF c < d THEN c ELSE d
    IN  IF m1 < m2 THEN m1 ELSE m2

\* The corners of the unit cube at cell p that lie on its side towards n.
FaceCorners(p, n) ==
    { q \in (p[1] .. (p[1] + 1)) \X (p[2] .. (p[2] + 1)) \X (p[3] .. (p[3] + 1)) :
        \A a \in 1 .. 3 :
            /\ n[a] = 1  => q[a] = p[a] + 1
            /\ n[a] = -1 => q[a] = p[a] }

\* Position and normal of vertex i (1 .. 4) of quad j of a vertex buffer.
VertexPos(buf, j, i) ==
    LET o == 4 * FloatsPerVertex * (j - 1) + FloatsPerVertex * (i - 1)
    IN  <<buf[o + 1], buf[o + 2], buf[o + 3]>>

VertexNormal(buf, j, i) ==
    LET o == 4 * FloatsPerVertex * (j - 1) + FloatsPerVertex * (i - 1)
    IN  <<buf[o + 6], buf[o + 7], buf[o + 8]>>

\* Quad j read back from the buffer: the cell it belongs to, the direction
\* it faces, and whether it is exactly that side of that cell.
QuadOf(buf, j) ==
    LET n  == VertexNormal(buf, j, 1)
        lo == [a \in 1 .. 3 |->
                 Min4(VertexPos(buf, j, 1)[a], VertexPos(buf, j, 2)[a],
                      VertexPos(buf, j, 3)[a], VertexPos(buf, j, 4)[a])]
        p  == <<lo[1] - (IF n[1] = 1 THEN 1 ELSE 0),
                lo[2] - (IF n[2] = 1 THEN 1 ELSE 0),
                lo[3] - (IF n[3] = 1 THEN 1 ELSE 0)>>
    IN  [ cell   |-> p,
          normal |-> n,
          valid  |-> /\ n \in Normals
                     /\ \A i \in 1 .. 4 : VertexNormal(buf, j, i) = n
                     /\ {VertexPos(buf, j, i) : i \in 1 .. 4} = FaceCorners(p, n) ]

QuadCount(buf) == Len(buf) \div (4 * FloatsPerVertex)

\* The quads of a vertex buffer, in buffer order.
Quads(buf) == [j \in 1 .. QuadCount(buf) |-> QuadOf(buf, j)]

\* The faces the culling rule exposes: a non-air cell and a direction whose
\* adjacent cell resolves to Air for Chunk::getBlock.
Exposed(c) ==
    { f \in Cube \X Normals :
        /\ getBlock(c, f[1][1], f[1][2], f[1][3]) # Air
        /\ getBlock(c, f[1][1] + f[2][1], f[1][2] + f[2][2], f[1][3] + f[2][3]) = Air }

\* The mesh of chunk c is current: built, and not dirtied since.
MeshCurrent(c) == c.meshBuilt /\ ~c.meshDirty

\* qs are the quads in the buffer, ex the exposed faces: every quad is a
\* well-formed face, the faces in the buffer are the exposed ones, each once.
FacesMatch(buf, qs, ex) ==
    /\ Len(buf) = 4 * FloatsPerVertex * Len(qs)
    /\ \A j \in DOMAIN qs : qs[j].valid
    /\ {<<qs[j].cell, qs[j].normal>> : j \in DOMAIN qs} = ex
    /\ Len(qs) = Cardinality(ex)

\* C8: in the mesh buildMesh produced, each of the 6 faces of each non-air
\* block is present if and only if the adjacent cell along the face's axis
\* resolves to Air; air blocks have no face and no face is there twice.
C8_FaceIffNeighborAir ==
    \A cc \in DOMAIN chunks :
        MeshCurrent(chunks[cc]) =>
            FacesMatch(gl.bufs[chunks[cc].vbo],
                       Quads(gl.bufs[chunks[cc].vbo]),
                       Exposed(chunks[cc]))

\* buildMesh just rebuilt a chunk holding two blocks stacked along y: their
\* common face is culled twice, 10 faces are in the buffer.
C8_Witness ==
    /\ lastOp.op = "buildMesh" /\ lastOp.rebuilt
    /\ lastOp.cc \in DOMAIN chunks
    /\ Solid(chunks[lastOp.cc]) = {<<0, 0, 0>>, <<0, 1, 0>>}
    /\ QuadCount(gl.bufs[chunks[lastOp.cc].vbo]) = 10
    /\ <<<<0, 0, 0>>, <<0, 1, 0>>>> \notin Exposed(chunks[lastOp.cc])

\* The non-air cells next to p along an axis.
SolidNeighbors(c, p) ==
    {n \in Normals : getBlock(c, p[1] + n[1], p[2] + n[2], p[3] + n[3]) # Air}

\* c's counts against the quads qs of its vertex buffer and the exposed
\* faces ex.
CountsMatch(c, qs, ex) ==
    /\ c.vertexCount = 4 * Len(qs)
    /\ c.indexCount = 6 * Len(qs)
    /\ Len(qs) = Cardinality(ex)
    /\ Len(gl.bufs[c.ebo]) = c.indexCount
    /\ Cardinality(Solid(c)) = 1 =>
          /\ Len(qs) = 6
          /\ c.vertexCount = 24
          /\ c.indexCount = 36
    /\ \A p \in Solid(c) :
          Cardinality(SolidNeighbors(c, p)) = 1 =>
              Cardinality({j \in DOMAIN qs : qs[j].cell = p}) = 5

\* C9: after buildMesh, vertexCount = 4*F and indexCount = 6*F with F the
\* number of faces emitted; a single block in air gives 6 faces (24
\* vertices, 36 indices), a block with exactly one non-air neighbour gives
\* 5 faces for that block.
C9_MeshCounts ==
    \A cc \in DOMAIN chunks :
        MeshCurrent(chunks[cc]) =>
            CountsMatch(chunks[cc],
                        Quads(gl.bufs[chunks[cc].vbo]),
                        Exposed(chunks[cc]))

\* buildMesh just rebuilt a chunk holding two blocks side by side along x:
\* 5 faces each, 40 vertices, 60 indices.
C9_Witness ==
    /\ lastOp.op = "buildMesh" /\ lastOp.rebuilt
    /\ lastOp.cc \in DOMAIN chunks
    /\ Solid(chunks[lastOp.cc]) = {<<0, 0, 0>>, <<1, 0, 0>>}
    /\ chunks[lastOp.cc].vertexCount = 40
    /\ chunks[lastOp.cc].indexCount = 60

\* The block at local coordinate q of the chunk at cc, q possibly outside
\* that chunk along x or z: the cell of the resident chunk that owns it, Air
\* when no resident chunk does or when y is out of range.
TrueBlock(cc, q) ==
    LET wx  == cc[1] * CHUNK_SIZE + q[1]
        wz  == cc[2] * CHUNK_SIZE + q[3]
        own == <<wx \div CHUNK_SIZE, wz \div CHUNK_SIZE>>
    IN  IF own \in DOMAIN chunks
        THEN getBlock(chunks[own], wx % CHUNK_SIZE, q[2], wz % CHUNK_SIZE)
        ELSE Air

\* Every quad of qs faces a cell that is truly Air.
FacesTrulyExposed(cc, qs) ==
    \A j \in DOMAIN qs : TrueBlock(cc, Plus(qs[j].cell, qs[j].normal)) = Air

\* C10: neighbour lookups that cross a chunk boundary reach the neighbouring
\* resident chunk: in the mesh buildMesh has just built, a face is present
\* only when the true neighbour, whichever chunk owns it, is Air.
C10_BoundaryFacesCulled ==
    \A cc \in DOMAIN chunks :
        (lastOp.op \in {"buildMesh", "update"} /\ lastOp.rebuilt /\ lastOp.cc = cc)
            => FacesTrulyExposed(cc, Quads(gl.bufs[chunks[cc].vbo]))

(* ------------------------------------------------------------------ *)
(* Terrain: C11, C12, C13                                               *)
(* ------------------------------------------------------------------ *)

\* The layer the terrain rule puts at height y of a column of height h.
Layer(y, h) ==
    CASE y = h              -> Grass
      [] y >= 0 /\ y < h - 3 -> Stone
      [] y >= h - 3 /\ y < h -> Dirt
      [] y > h              -> Air

\* Every column of chunk c is layered by its generateHeight.
Layered(c) ==
    \A x \in 0 .. (CHUNK_SIZE - 1) : \A z \in 0 .. (CHUNK_SIZE - 1) :
        \A y \in 0 .. (CHUNK_HEIGHT - 1) :
            getBlock(c, x, y, z)
                = Layer(y, generateHeight(c, c.chunkX * CHUNK_SIZE + x,
                                             c.chunkZ * CHUNK_SIZE + z))

\* The heights of the columns of chunk c.
ColumnHeights(c) ==
    { generateHeight(c, c.chunkX * CHUNK_SIZE + x, c.chunkZ * CHUNK_SIZE + z) :
        x \in 0 .. (CHUNK_SIZE - 1), z \in 0 .. (CHUNK_SIZE - 1) }

\* C11: terrain layering.  After generate, on a chunk in any state, in every
\* column of height h = generateHeight(worldX, worldZ) the block at y = h is
\* Grass, blocks with 0 <= y < h-3 are Stone, blocks with h-3 <= y < h are
\* Dirt and blocks with y > h are Air, the chunk is dirty; and the rule
\* generate applies is that layering for every height and every y.
C11_TerrainLayering ==
    /\ \A cc \in DOMAIN chunks :
          /\ Layered(generate(chunks[cc]))
          /\ generate(chunks[cc]).meshDirty
    /\ lastOp.op = "generate" => Layered(chunks[lastOp.cc])
    /\ \A h \in 1 .. (CHUNK_HEIGHT - 1) : \A y \in 0 .. (CHUNK_HEIGHT - 1) :
          columnBlock(y, h) = Layer(y, h)

\* Both chunks were generated, the valley chunk last: the chunk by the origin
\* has columns of height CHUNK_HEIGHT-1 (Stone at the bottom, Dirt, Grass on
\* top, no Air), the valley chunk a column of height 3 (no Stone: Dirt from
\* y = 0, Grass at 3, Air above) and a lower one.
C11_Witness ==
    /\ lastOp.op = "generate" /\ lastOp.cc = <<275, 165>>
    /\ DOMAIN chunks = TerrainCoords
    /\ ColumnHeights(chunks[<<0, -1>>]) = {CHUNK_HEIGHT - 1}
    /\ getBlock(chunks[<<0, -1>>], 0, 0, 0) = Stone
    /\ getBlock(chunks[<<0, -1>>], 0, 1, 0) = Dirt
    /\ getBlock(chunks[<<0, -1>>], 0, CHUNK_HEIGHT - 1, 0) = Grass
    /\ ColumnHeights(chunks[<<275, 165>>]) = {2, 3}
    /\ \E x \in 0 .. (CHUNK_SIZE - 1), z \in 0 .. (CHUNK_SIZE - 1) :
          /\ getBlock(chunks[<<275, 165>>], x, 0, z) = Dirt
          /\ getBlock(chunks[<<275, 165>>], x, 3, z) = Grass
          /\ getBlock(chunks[<<275, 165>>], x, 4, z) = Air

\* Values of the float sum after the cast, below, inside and above every
\* chunk height the model takes: the three sinusoids span 40 - 40 .. 40 + 40.
SumRange == -3 .. 83

\* C12: generateHeight is a pure function of (x, z).  Called on chunks in
\* different states with the same (x, z) it returns the same height, the one
\* a new chunk returns in every state, and for every input the result lies
\* in [1, CHUNK_HEIGHT-1], the clamp bringing every value of the sum into
\* that range and leaving the values inside it alone.
C12_HeightPureAndClamped ==
    /\ \A p \in HeightInputs :
          /\ generateHeight(Chunk(0, 0, 0), p[1], p[2]) \in 1 .. (CHUNK_HEIGHT - 1)
          /\ \A cc \in DOMAIN chunks :
                generateHeight(chunks[cc], p[1], p[2])
                    = generateHeight(Chunk(0, 0, 0), p[1], p[2])
    /\ \A v \in SumRange :
          /\ clamp(v, 1, CHUNK_HEIGHT - 1) \in 1 .. (CHUNK_HEIGHT - 1)
          /\ v \in 1 .. (CHUNK_HEIGHT - 1) => clamp(v, 1, CHUNK_HEIGHT - 1) = v
          /\ v < 1 => clamp(v, 1, CHUNK_HEIGHT - 1) = 1
          /\ v > CHUNK_HEIGHT - 1 => clamp(v, 1, CHUNK_HEIGHT - 1) = CHUNK_HEIGHT - 1

\* generate just ran on one chunk while the other one is new and empty; the
\* sum is below 1 at (540, 300), where the height is 1, and far above the
\* chunk at (0, 0), where the height is CHUNK_HEIGHT-1.
C12_Witness ==
    /\ lastOp.op = "generate"
    /\ DOMAIN chunks = TerrainCoords
    /\ \E cc \in DOMAIN chunks : Solid(chunks[cc]) = {}
    /\ \E cc \in DOMAIN chunks : Solid(chunks[cc]) # {}
    /\ truncToInt(heightSum(540, 300)) < 1
    /\ generateHeight(chunks[lastOp.cc], 540, 300) = 1
    /\ truncToInt(heightSum(0, 0)) > CHUNK_HEIGHT - 1
    /\ generateHeight(chunks[lastOp.cc], 0, 0) = CHUNK_HEIGHT - 1

\* The terrain at chunk coordinate (cx, cz), from the coordinate alone: the
\* block array in which every cell holds the layer of its column's height.
TerrainBlocks(cx, cz) ==
    [i \in 0 .. (Volume - 1) |->
        Layer(i \div (CHUNK_SIZE * CHUNK_SIZE),
              generateHeight(Chunk(cx, 0, cz),
                             cx * CHUNK_SIZE + (i % CHUNK_SIZE),
                             cz * CHUNK_SIZE + ((i \div CHUNK_SIZE) % CHUNK_SIZE)))]

\* C13: generation is order-independent.  Whatever was created, generated or
\* written before, in whatever order, a generate step leaves in its chunk
\* the blocks that the chunk's coordinate (chunkX, chunkZ) alone determines,
\* and leaves every other chunk as it was.
C13_GenerationOrderIndependent ==
    [][ lastOp'.op = "generate" =>
            /\ chunks'[lastOp'.cc].blocks = TerrainBlocks(lastOp'.cc[1], lastOp'.cc[2])
            /\ chunks'[lastOp'.cc].chunkX = lastOp'.cc[1]
            /\ chunks'[lastOp'.cc].chunkZ = lastOp'.cc[2]
            /\ \A o \in DOMAIN chunks \ {lastOp'.cc} :
                  o \in DOMAIN chunks' /\ chunks'[o] = chunks[o] ]_vars

\* The chunk by the origin was generated after the valley chunk had been
\* generated and written twice: it holds its terrain, the valley chunk its
\* edits.
C13_Witness ==
    /\ lastOp.op = "generate" /\ lastOp.cc = <<0, -1>>
    /\ DOMAIN chunks = TerrainCoords
    /\ writes = 2
    /\ chunks[<<0, -1>>].blocks = TerrainBlocks(0, -1)
    /\ chunks[<<275, 165>>].blocks # TerrainBlocks(275, 165)
    /\ getBlock(chunks[<<275, 165>>], 0, 0, 0) = Air
    /\ TerrainBlocks(275, 165) # TerrainBlocks(0, -1)

(* ------------------------------------------------------------------ *)
(* World coordinates and keys: C14, C15                                 *)
(* ------------------------------------------------------------------ *)

\* World coordinates on both sides of zero, several chunks wide at the
\* game's edge length.
CoordRange == -40 .. 40

\* q is the floor of w / size and l the rest: size*q <= w < size*(q+1),
\* 0 <= l < size and size*q + l = w.
FloorSplit(size, w, q, l) ==
    /\ size * q <= w
    /\ w < size * (q + 1)
    /\ l \in 0 .. (size - 1)
    /\ size * q + l = w

\* C14: the world coordinate transform uses floor semantics.  For every
\* world coordinate w, negative included, worldToChunkCoord(w) is
\* floor(w/16), worldToLocalCoord(w) is in [0,16) and chunk*16 + local = w;
\* w = -1 maps to chunk -1, local 15.  The same for the edge length of the
\* modelled chunk, on the coordinates World is called with.
C14_FloorCoordinates ==
    /\ \A w \in CoordRange :
          /\ FloorSplit(CHUNK_SIZE_X, w, chunkCoordFor(CHUNK_SIZE_X, w),
                        localCoordFor(CHUNK_SIZE_X, w))
          /\ FloorSplit(CHUNK_SIZE, w, worldToChunkCoord(w), worldToLocalCoord(w))
    /\ chunkCoordFor(CHUNK_SIZE_X, -1) = -1
    /\ localCoordFor(CHUNK_SIZE_X, -1) = 15
    /\ \A p \in LifeCells :
          /\ FloorSplit(CHUNK_SIZE, p[1], worldToChunkCoord(p[1]), worldToLocalCoord(p[1]))
          /\ FloorSplit(CHUNK_SIZE, p[3], worldToChunkCoord(p[3]), worldToLocalCoord(p[3]))
          /\ <<worldToChunkCoord(p[1]), worldToChunkCoord(p[3])>> \in LifeCoords
    /\ (lastOp.op = "World::setBlock" /\ lastOp.inb)
          => hasChunk(chunks, lastOp.cc[1], lastOp.cc[2])

\* The only write so far was World::setBlock at world z = -1, of Air over
\* the Grass on top of the chunk at (0, -1): the chunk created is the one at
\* chunkZ = -1 and the cell written is its last one along z.
C14_Witness ==
    /\ lastOp.op = "World::setBlock" /\ lastOp.inb /\ lastOp.cc = <<0, -1>>
    /\ writes = 1
    /\ hasChunk(chunks, 0, -1)
    /\ chunks[chunkKey(0, -1)].chunkZ = -1
    /\ World_getBlock(chunks, CHUNK_SIZE - 1, CHUNK_HEIGHT - 1, -1) = Air
    /\ getBlock(chunks[chunkKey(0, -1)],
                CHUNK_SIZE - 1, CHUNK_HEIGHT - 1, CHUNK_SIZE - 1) = Air
    /\ getBlock(generate(Chunk(0, 0, -1)),
                CHUNK_SIZE - 1, CHUNK_HEIGHT - 1, CHUNK_SIZE - 1) = Grass

\* Chunk coordinates along x, and along z around zero and around the ends of
\* the 16-bit field of the key.
KeyXs == {-32768, -1, 0, 1, 32767}

KeyZs == {-65536, -32769, -32768, -2, -1, 0, 1, 2, 32767, 32768, 65535, 65536}

\* C15: chunk key injectivity.  No two distinct chunk coordinate pairs,
\* pairs with negative z included, have the same chunkKey; so the chunk
\* World holds for a coordinate it was asked for is a chunk of that
\* coordinate.
C15_ChunkKeyInjective ==
    /\ \A a \in KeyXs \X KeyZs : \A b \in KeyXs \X KeyZs :
          chunkKey(a[1], a[2]) = chunkKey(b[1], b[2]) => a = b
    /\ \A cc \in LifeCoords :
          hasChunk(chunks, cc[1], cc[2]) =>
              /\ chunks[chunkKey(cc[1], cc[2])].chunkX = cc[1]
              /\ chunks[chunkKey(cc[1], cc[2])].chunkZ = cc[2]

(* ------------------------------------------------------------------ *)
(* World lifecycle: C16 .. C20                                          *)
(* ------------------------------------------------------------------ *)

\* The keys under which world w holds a chunk of coordinate cc.
HoldersOf(w, cc) ==
    {k \in DOMAIN w : w[k].chunkX = cc[1] /\ w[k].chunkZ = cc[2]}

\* getChunk(cc) on world w: the chunk returned is a chunk of coordinate cc;
\* it is the resident one when there is one, and then nothing changes;
\* otherwise exactly one entry is added, a newly generated chunk, the others
\* staying as they were; a second call changes nothing.
GetChunkContract(w, cc) ==
    LET w1 == getChunk(w, cc[1], cc[2])
        k  == chunkKey(cc[1], cc[2])
    IN  /\ k \in DOMAIN w1
        /\ w1[k].chunkX = cc[1] /\ w1[k].chunkZ = cc[2]
        /\ HoldersOf(w, cc) # {} => w1 = w
        /\ HoldersOf(w, cc) = {} =>
              /\ DOMAIN w1 = DOMAIN w \cup {k}
              /\ Cardinality(DOMAIN w1) = Cardinality(DOMAIN w) + 1
              /\ w1[k] = generate(Chunk(cc[1], 0, cc[2]))
              /\ \A j \in DOMAIN w : w1[j] = w[j]
        /\ getChunk(w1, cc[1], cc[2]) = w1

\* C16: after any sequence of World calls, World holds at most one Chunk per
\* chunk coordinate, and getChunk(cx, cz) returns the resident chunk of that
\* coordinate when there is one and otherwise creates, generates and
\* inserts exactly one new chunk; a second call returns the same chunk and
\* adds nothing.
C16_OneChunkPerCoordinate ==
    /\ \A cc \in LifeCoords : Cardinality(HoldersOf(chunks, cc)) <= 1
    /\ \A cc \in LifeCoords : GetChunkContract(chunks, cc)

\* The chunk coordinate that owns world position p.
OwnerOf(p) == <<worldToChunkCoord(p[1]), worldToChunkCoord(p[3])>>

\* C17: World::getBlock at a world coordinate whose chunk is not resident
\* returns Air, and the call creates, loads and modifies nothing: the
\* resident chunks, their contents and dirty flags are the same before and
\* after it.
C17_GetBlockNonResident ==
    /\ [](\A p \in LifeCells :
            HoldersOf(chunks, OwnerOf(p)) = {}
                => World_getBlock(chunks, p[1], p[2], p[3]) = Air)
    /\ [][ lastOp'.op = "World::getBlock" => (chunks' = chunks /\ gl' = gl) ]_vars

\* Index in the block array of the cell world position p falls on, when its
\* y is in range.
LocalIndex(p) ==
    getBlockIndex(worldToLocalCoord(p[1]), p[2], worldToLocalCoord(p[3]))

\* The terrain of the chunk that owns p with T written at p (nothing written
\* when p is above or below the chunk).
TerrainWith(p, T) ==
    IF isInBounds(worldToLocalCoord(p[1]), p[2], worldToLocalCoord(p[3]))
    THEN [TerrainBlocks(OwnerOf(p)[1], OwnerOf(p)[2]) EXCEPT ![LocalIndex(p)] = T]
    ELSE TerrainBlocks(OwnerOf(p)[1], OwnerOf(p)[2])

\* World::setBlock(p, T) on world w, the chunk of p not being resident: w1 is
\* the world afterwards.
SetBlockCreates(w, w1, p, T) ==
    /\ hasChunk(w1, OwnerOf(p)[1], OwnerOf(p)[2])
    /\ HoldersOf(w1, OwnerOf(p)) = {chunkKey(OwnerOf(p)[1], OwnerOf(p)[2])}
    /\ p[2] \in 0 .. (CHUNK_HEIGHT - 1) => World_getBlock(w1, p[1], p[2], p[3]) = T
    /\ w1[chunkKey(OwnerOf(p)[1], OwnerOf(p)[2])].blocks = TerrainWith(p, T)
    /\ \A j \in DOMAIN w : j \in DOMAIN w1 /\ w1[j] = w[j]

\* C18: World::setBlock(x,y,z,T) on a coordinate whose chunk is not resident
\* creates and terrain-generates that chunk and then applies the write:
\* afterwards hasChunk is true for that chunk, getBlock(x,y,z) returns T for
\* in-range y, every other cell of the chunk holds its generated terrain
\* value, and the chunks that were resident are untouched.
C18_SetBlockCreatesChunk ==
    \A p \in LifeCells : \A T \in BlockType :
        HoldersOf(chunks, OwnerOf(p)) = {}
            => SetBlockCreates(chunks, World_setBlock(chunks, p[1], p[2], p[3], T), p, T)

\* w2 is a world in which the chunk of p is not resident after an edit at p
\* and an unload: getBlock(p) is Air in it, stays Air when any other chunk is
\* loaded, and a load of the chunk of p gives its terrain, not the edit.
EditLost(w2, p) ==
    /\ HoldersOf(w2, OwnerOf(p)) = {}
    /\ World_getBlock(w2, p[1], p[2], p[3]) = Air
    /\ \A cc \in LifeCoords \ {OwnerOf(p)} :
          World_getBlock(loadChunk(w2, cc[1], cc[2]), p[1], p[2], p[3]) = Air
    /\ HoldersOf(loadChunk(w2, OwnerOf(p)[1], OwnerOf(p)[2]), OwnerOf(p))
          = {chunkKey(OwnerOf(p)[1], OwnerOf(p)[2])}
    /\ loadChunk(w2, OwnerOf(p)[1], OwnerOf(p)[2])[chunkKey(OwnerOf(p)[1], OwnerOf(p)[2])].blocks
          = TerrainBlocks(OwnerOf(p)[1], OwnerOf(p)[2])

\* C19: edits do not survive unload.  From every reachable world, after
\* setBlock(x,y,z,T) and unloadChunk of the owning chunk, getBlock(x,y,z)
\* returns Air for as long as that chunk is not resident, and after a later
\* load of the same coordinate every cell equals freshly generated terrain.
C19_EditsLostOnUnload ==
    \A p \in LifeCells : \A T \in LifeTypes :
        EditLost(unloadChunk(World_setBlock(chunks, p[1], p[2], p[3], T), gl,
                             OwnerOf(p)[1], OwnerOf(p)[2]).world, p)

\* r is what unloadChunk(cc) returns on world w with GL store g.
UnloadContract(w, g, cc, r) ==
    /\ HoldersOf(w, cc) # {} =>
          /\ r.result
          /\ DOMAIN r.world = DOMAIN w \ HoldersOf(w, cc)
    /\ HoldersOf(w, cc) = {} =>
          /\ ~r.result
          /\ r.world = w
          /\ r.gl = g
    /\ \A j \in DOMAIN w \ HoldersOf(w, cc) : j \in DOMAIN r.world /\ r.world[j] = w[j]
    /\ ~unloadChunk(r.world, r.gl, cc[1], cc[2]).result
    /\ unloadChunk(r.world, r.gl, cc[1], cc[2]).world = r.world

\* C20: unloadChunk(cx,cz) returns true and removes exactly the map entry of
\* (cx,cz) when that chunk is resident, returns false and leaves the world
\* unchanged when it is not; a second unloadChunk of the same coordinate
\* returns false, and no other chunk is ever removed by it.
C20_UnloadChunkExact ==
    \A cc \in LifeCoords :
        UnloadContract(chunks, gl, cc, unloadChunk(chunks, gl, cc[1], cc[2]))

(* ------------------------------------------------------------------ *)
(* Mesh lifecycle: C21 .. C26                                           *)
(* ------------------------------------------------------------------ *)

\* The live chunks whose mesh is built, and the GL names they hold.
BuiltChunks == {k \in DOMAIN chunks : chunks[k].meshBuilt}

HeldVaos == {chunks[k].vao : k \in BuiltChunks}

HeldBufs == UNION {{chunks[k].vbo, chunks[k].ebo} : k \in BuiltChunks}

\* C21: destroying a chunk releases its GPU handles as part of the
\* destruction: right after ~Chunk of a chunk whose mesh was built, its
\* vertex array, vertex buffer and index buffer are not allocated any more,
\* and at no time is a GL object allocated that no live built chunk holds.
C21_DestroyReleasesHandles ==
    /\ gl.vaos \subseteq HeldVaos
    /\ DOMAIN gl.bufs \subseteq HeldBufs
    /\ (lastOp.op = "~Chunk" /\ lastOp.built) =>
           /\ lastOp.vao \notin gl.vaos
           /\ lastOp.vbo \notin DOMAIN gl.bufs
           /\ lastOp.ebo \notin DOMAIN gl.bufs

\* A built chunk has just been destroyed while another built chunk lives on.
C21_Witness ==
    /\ lastOp.op = "~Chunk"
    /\ lastOp.built
    /\ BuiltChunks # {}
    /\ gl.vaos # {}

\* C22: right after a call of Chunk::render that issued a draw, the chunk
\* is not dirty and the buffers drawn are the mesh of its current blocks:
\* whatever the order of setBlock, update and render, no stale mesh is
\* drawn.
C22_RenderOnlyCurrentMesh ==
    (lastOp.op = "render" /\ render(chunks[lastOp.cc]).drawn) =>
        /\ ~chunks[lastOp.cc].meshDirty
        /\ HoldsMesh(chunks[lastOp.cc], meshOf(chunks[lastOp.cc]))

(* ------------------------------------------------------------------ *)
(* Geometry of the emitted faces: C23                                   *)
(* ------------------------------------------------------------------ *)

Minus(p, q) == <<p[1] - q[1], p[2] - q[2], p[3] - q[3]>>

Cross(a, b) ==
    << a[2] * b[3] - a[3] * b[2],
       a[3] * b[1] - a[1] * b[3],
       a[1] * b[2] - a[2] * b[1] >>

Dot(a, b) == a[1] * b[1] + a[2] * b[2] + a[3] * b[3]

\* Position and normal of the vertex an index of the index buffer refers to.
IndexedPos(buf, i) ==
    <<buf[FloatsPerVertex * i + 1], buf[FloatsPerVertex * i + 2],
      buf[FloatsPerVertex * i + 3]>>

IndexedNormal(buf, i) ==
    <<buf[FloatsPerVertex * i + 6], buf[FloatsPerVertex * i + 7],
      buf[FloatsPerVertex * i + 8]>>

\* A triangle with corners p0, p1, p2 carrying the normals n0, n1, n2 is
\* counter-clockwise seen from the side the normal points to:
\* (p1 - p0) x (p2 - p0) is a positive multiple of the normal, which the
\* three corners share.
OutwardAt(p0, p1, p2, n0, n1, n2) ==
    /\ n1 = n0
    /\ n2 = n0
    /\ \E c \in {Cross(Minus(p1, p0), Minus(p2, p0))} :
          /\ Dot(c, n0) > 0
          /\ Cross(c, n0) = <<0, 0, 0>>

\* Triangle t (from 0) of the mesh m.
TriangleOutward(m, t) ==
    OutwardAt(IndexedPos(m.vertices, m.indices[3 * t + 1]),
              IndexedPos(m.vertices, m.indices[3 * t + 2]),
              IndexedPos(m.vertices, m.indices[3 * t + 3]),
              IndexedNormal(m.vertices, m.indices[3 * t + 1]),
              IndexedNormal(m.vertices, m.indices[3 * t + 2]),
              IndexedNormal(m.vertices, m.indices[3 * t + 3]))

WindingOutward(m) ==
    /\ Len(m.indices) % 3 = 0
    /\ \A t \in 0 .. (Len(m.indices) \div 3 - 1) : TriangleOutward(m, t)

\* The buffers a built chunk holds in the GL store.
StoredMesh(c) == [vertices |-> gl.bufs[c.vbo], indices |-> gl.bufs[c.ebo]]

\* C23: for each of the six faces, at every cell and for every block type,
\* the two triangles addFace emits are counter-clockwise seen from outside
\* the block: the cross product (v1 - v0) x (v2 - v0) of each points the same
\* way as the stored normal; so are all triangles of every mesh buildMesh
\* has uploaded.
C23_ConsistentWinding ==
    /\ \A p \in Cube : \A f \in Faces : \A T \in BlockType :
          \E m \in {addFace(p[1], p[2], p[3], f, T,
                            [vertices |-> << >>, indices |-> << >>])} :
              /\ Len(m.indices) = 6
              /\ WindingOutward(m)
    /\ \A cc \in BuiltChunks : WindingOutward(StoredMesh(chunks[cc]))

\* A mesh with the ten faces of two blocks that touch has just been built.
C23_Witness ==
    /\ lastOp.op \in {"buildMesh", "update"}
    /\ lastOp.rebuilt
    /\ chunks[lastOp.cc].meshBuilt
    /\ chunks[lastOp.cc].indexCount = 60
    /\ Len(gl.bufs[chunks[lastOp.cc].ebo]) = 60

(* ------------------------------------------------------------------ *)
(* Frame of setBlock: C24                                               *)
(* ------------------------------------------------------------------ *)

\* c2 is c but for its blocks and its dirty flag: coordinate, GL names,
\* counts and built flag are the same.
SameButBlocks(c, c2) ==
    /\ c2.chunkX = c.chunkX
    /\ c2.chunkY = c.chunkY
    /\ c2.chunkZ = c.chunkZ
    /\ c2.vao = c.vao
    /\ c2.vbo = c.vbo
    /\ c2.ebo = c.ebo
    /\ c2.meshBuilt = c.meshBuilt
    /\ c2.vertexCount = c.vertexCount
    /\ c2.indexCount = c.indexCount

\* C24: setBlock at an in-bounds cell p writes one slot of the block array,
\* the one p reads: every other in-bounds cell reads the same before and
\* after, and the chunk's coordinate, its GL names and its built mesh are
\* unchanged; the GL objects of a built chunk are still allocated after the
\* call.
C24_SetBlockFrame ==
    /\ \A cc \in DOMAIN chunks : \A p \in Cube : \A T \in BlockType :
          \E c2 \in {setBlock(chunks[cc], p[1], p[2], p[3], T)} :
              /\ getBlock(c2, p[1], p[2], p[3]) = T
              /\ \A q \in Cube \ {p} :
                    getBlock(c2, q[1], q[2], q[3])
                        = getBlock(chunks[cc], q[1], q[2], q[3])
              /\ DOMAIN c2.blocks = DOMAIN chunks[cc].blocks
              /\ \A i \in DOMAIN c2.blocks :
                    i # getBlockIndex(p[1], p[2], p[3])
                        => c2.blocks[i] = chunks[cc].blocks[i]
              /\ SameButBlocks(chunks[cc], c2)
    /\ (lastOp.op = "setBlock" /\ lastOp.inb /\ chunks[lastOp.cc].meshBuilt) =>
           /\ chunks[lastOp.cc].vao \in gl.vaos
           /\ chunks[lastOp.cc].vbo \in DOMAIN gl.bufs
           /\ chunks[lastOp.cc].ebo \in DOMAIN gl.bufs

\* A block has just been written into a built chunk that holds another
\* block, which is still there.
C24_Witness ==
    /\ lastOp.op = "setBlock"
    /\ lastOp.inb
    /\ chunks[lastOp.cc].meshBuilt
    /\ chunks[lastOp.cc].vao \in gl.vaos
    /\ getBlock(chunks[lastOp.cc], 0, 0, 0) = Stone
    /\ getBlock(chunks[lastOp.cc], 1, 0, 0) = Grass
    /\ chunks[lastOp.cc].indexCount = 36

(* ------------------------------------------------------------------ *)
(* Flags and GL objects: C25, C26                                       *)
(* ------------------------------------------------------------------ *)

\* C25: in every reachable state a chunk whose mesh is not built is dirty,
\* so that update() builds the mesh of any chunk that has none and leaves
\* it clean and built.
C25_UnbuiltImpliesDirty ==
    \A cc \in DOMAIN chunks :
        ~chunks[cc].meshBuilt =>
            /\ chunks[cc].meshDirty
            /\ update(chunks[cc], gl).chunk.meshBuilt
            /\ ~update(chunks[cc], gl).chunk.meshDirty

\* The GL objects chunk c names in its fields are allocated.
Allocated(c) ==
    /\ c.vao \in gl.vaos
    /\ c.vbo \in DOMAIN gl.bufs
    /\ c.ebo \in DOMAIN gl.bufs
    /\ c.vbo # c.ebo

\* Every built chunk holds one vertex array and two buffers of its own, and
\* nothing else is allocated: a chunk that is not built holds nothing.
HandlesOwned ==
    /\ \A k \in BuiltChunks : Allocated(chunks[k])
    /\ \A k1 \in BuiltChunks : \A k2 \in BuiltChunks \ {k1} :
          /\ chunks[k1].vao # chunks[k2].vao
          /\ {chunks[k1].vbo, chunks[k1].ebo}
                 \cap {chunks[k2].vbo, chunks[k2].ebo} = {}
    /\ gl.vaos = HeldVaos
    /\ DOMAIN gl.bufs = HeldBufs

\* A step that allocates GL objects is a build of a chunk that held none,
\* which then holds exactly the new ones; a step that deletes GL objects is
\* a cleanup or a destruction of a built chunk and deletes exactly the
\* objects it held.
HandlesStep ==
    /\ (gl'.vaos \ gl.vaos # {} \/ (DOMAIN gl'.bufs) \ (DOMAIN gl.bufs) # {}) =>
          /\ lastOp'.op \in {"buildMesh", "update"}
          /\ ~chunks[lastOp'.cc].meshBuilt
          /\ chunks'[lastOp'.cc].meshBuilt
          /\ gl'.vaos \ gl.vaos = {chunks'[lastOp'.cc].vao}
          /\ (DOMAIN gl'.bufs) \ (DOMAIN gl.bufs)
                 = {chunks'[lastOp'.cc].vbo, chunks'[lastOp'.cc].ebo}
          /\ gl.vaos \subseteq gl'.vaos
          /\ (DOMAIN gl.bufs) \subseteq (DOMAIN gl'.bufs)
    /\ (gl.vaos \ gl'.vaos # {} \/ (DOMAIN gl.bufs) \ (DOMAIN gl'.bufs) # {}) =>
          /\ lastOp'.op \in {"cleanup", "~Chunk"}
          /\ chunks[lastOp'.cc].meshBuilt
          /\ gl.vaos \ gl'.vaos = {chunks[lastOp'.cc].vao}
          /\ (DOMAIN gl.bufs) \ (DOMAIN gl'.bufs)
                 = {chunks[lastOp'.cc].vbo, chunks[lastOp'.cc].ebo}
          /\ gl'.vaos \subseteq gl.vaos
          /\ (DOMAIN gl'.bufs) \subseteq (DOMAIN gl.bufs)
    /\ (lastOp'.op \in {"buildMesh", "update"} /\ chunks[lastOp'.cc].meshBuilt) =>
          /\ gl'.vaos = gl.vaos
          /\ DOMAIN gl'.bufs = DOMAIN gl.bufs
    /\ (lastOp'.op = "cleanup" /\ ~chunks[lastOp'.cc].meshBuilt) => gl' = gl

\* C26: over any sequence of buildMesh, update, setBlock, markDirty, cleanup
\* (and render, construction and destruction) a chunk holds an allocated
\* vertex array, vertex buffer and index buffer exactly when meshBuilt is
\* true; the objects are generated only by a build of a chunk that holds
\* none and deleted only from a chunk that holds them, so no build allocates
\* a second set and no cleanup deletes objects the chunk does not hold.
C26_HandleOwnership == [](HandlesOwned) /\ [][HandlesStep]_vars

\* A chunk was built, cleaned up and built again while another chunk stays
\* built: both hold their own objects, three names have been in use.
C26_Witness ==
    /\ lastOp.op \in {"buildMesh", "update"}
    /\ lastOp.rebuilt
    /\ Cardinality(BuiltChunks) = 2
    /\ Cardinality(gl.vaos) = 2
    /\ Cardinality(DOMAIN gl.bufs) = 4
    /\ chunks[<<0, 0>>].vao = 2
    /\ chunks[<<1, 0>>].vao = 1

(* ------------------------------------------------------------------ *)
(* Generated columns: C27                                               *)
(* ------------------------------------------------------------------ *)

\* The heights at which column (x, z) of chunk c holds Grass.
GrassAt(c, x, z) ==
    {y \in 0 .. (CHUNK_HEIGHT - 1) : getBlock(c, x, y, z) = Grass}

\* Every column of c is solid from the bottom with no gap: its cell at
\* y = 0 is not Air, it holds exactly one Grass, every cell below the Grass
\* is not Air and every cell above it is Air.
SolidColumns(c) ==
    \A x \in 0 .. (CHUNK_SIZE - 1) : \A z \in 0 .. (CHUNK_SIZE - 1) :
        /\ getBlock(c, x, 0, z) # Air
        /\ Cardinality(GrassAt(c, x, z)) = 1
        /\ \A g \in GrassAt(c, x, z) : \A y \in 0 .. (CHUNK_HEIGHT - 1) :
              /\ y < g => getBlock(c, x, y, z) # Air
              /\ y > g => getBlock(c, x, y, z) = Air

\* C27: after generate on a new chunk (and on any chunk reached) every
\* column is solid from the bottom with no gaps: y = 0 is never Air, there
\* is exactly one Grass per column, every cell below it is not Air, every
\* cell above it is Air; and generate leaves the chunk dirty.
C27_GeneratedColumnsSolid ==
    /\ \A cc \in TerrainCoords :
          \E c2 \in {generate(Chunk(cc[1], 0, cc[2]))} :
              SolidColumns(c2) /\ c2.meshDirty
    /\ \A cc \in DOMAIN chunks :
          \E c2 \in {generate(chunks[cc])} :
              SolidColumns(c2) /\ c2.meshDirty
    /\ lastOp.op = "generate" =>
          /\ SolidColumns(chunks[lastOp.cc])
          /\ chunks[lastOp.cc].meshDirty

\* The valley chunk, never written, has just been generated: its Grass lies
\* at heights 2 and 3, with Dirt below and Air above.
C27_Witness ==
    /\ lastOp.op = "generate" /\ lastOp.cc = <<275, 165>>
    /\ writes = 0
    /\ {g \in 0 .. (CHUNK_HEIGHT - 1) :
           \E x \in 0 .. (CHUNK_SIZE - 1), z \in 0 .. (CHUNK_SIZE - 1) :
               g \in GrassAt(chunks[<<275, 165>>], x, z)} = {2, 3}
    /\ SolidColumns(chunks[<<275, 165>>])
    /\ chunks[<<275, 165>>].meshDirty

(* ------------------------------------------------------------------ *)
(* Index buffer: C28                                                    *)
(* ------------------------------------------------------------------ *)

\* The mesh m with vertexCount vertices is made of whole faces; every index
\* is below vertexCount, and the six indices of face j (from 0) are
\* base, base+1, base+2, base, base+2, base+3 with base = 4 * j, the four
\* vertices of that face.
IndicesWellFormed(m, vertexCount) ==
    /\ Len(m.indices) % 6 = 0
    /\ Len(m.vertices) = 4 * FloatsPerVertex * (Len(m.indices) \div 6)
    /\ vertexCount = 4 * (Len(m.indices) \div 6)
    /\ \A i \in 1 .. Len(m.indices) :
          m.indices[i] >= 0 /\ m.indices[i] < vertexCount
    /\ \A j \in 0 .. (Len(m.indices) \div 6 - 1) :
          <<m.indices[6 * j + 1], m.indices[6 * j + 2], m.indices[6 * j + 3],
            m.indices[6 * j + 4], m.indices[6 * j + 5], m.indices[6 * j + 6]>>
              = <<4 * j, 4 * j + 1, 4 * j + 2, 4 * j, 4 * j + 2, 4 * j + 3>>

\* C28: every index buildMesh emits is smaller than the final vertexCount,
\* and the six indices of each face reference that face's own four vertices
\* in the pattern base, base+1, base+2, base, base+2, base+3, base being 4
\* times the number of faces emitted before it: for the mesh a build of any
\* reachable chunk uploads and for the mesh every built chunk holds.
C28_IndicesInRange ==
    /\ \A cc \in DOMAIN chunks :
          \E r \in {buildMesh(markDirty(chunks[cc]), gl)} :
              IndicesWellFormed([vertices |-> r.gl.bufs[r.chunk.vbo],
                                 indices  |-> r.gl.bufs[r.chunk.ebo]],
                                r.chunk.vertexCount)
    /\ \A cc \in BuiltChunks :
          /\ IndicesWellFormed(StoredMesh(chunks[cc]), chunks[cc].vertexCount)
          /\ chunks[cc].indexCount = Len(gl.bufs[chunks[cc].ebo])

\* A mesh of twelve faces has just been built, of two blocks apart from each
\* other: the last face's indices are 44 .. 47.
C28_Witness ==
    /\ lastOp.op \in {"buildMesh", "update"}
    /\ lastOp.rebuilt
    /\ chunks[lastOp.cc].vertexCount = 48
    /\ chunks[lastOp.cc].indexCount = 72
    /\ gl.bufs[chunks[lastOp.cc].ebo][72] = 47
    /\ gl.bufs[chunks[lastOp.cc].ebo][67] = 44

(* ------------------------------------------------------------------ *)
(* Game lifecycle and loop: C29, C30                                    *)
(* ------------------------------------------------------------------ *)

\* C29: in every reachable state of the Game object, initialize on an
\* initialized Game returns false and leaves isInitialized and isRunning as
\* they are; run on a Game that is not initialized returns false without
\* setting isRunning and without a frame; shutdown on a Game that is not
\* initialized changes nothing, a second shutdown changes nothing more, and
\* after shutdown isInitialized and isRunning are both false.
C29_LifecycleGuards ==
    /\ game.isInitialized =>
          /\ ~Game_initialize(game).result
          /\ Game_initialize(game).game = game
    /\ ~game.isInitialized =>
          /\ ~Game_run(game).entered
          /\ Game_run(game).game = game
          /\ Game_shutdown(game) = game
    /\ Game_shutdown(Game_shutdown(game)) = Game_shutdown(game)
    /\ ~Game_shutdown(game).isInitialized
    /\ ~Game_shutdown(game).isRunning
    /\ loop.op = "shutdown" => ~game.isInitialized /\ ~game.isRunning
    /\ (loop.op = "initialize" /\ loop.result = "false") => game.isInitialized
    /\ (loop.op = "run" /\ loop.result = "false") =>
          /\ ~game.isInitialized
          /\ ~game.isRunning
          /\ loop.pc = "idle"

\* initialize was refused on a Game that had run two frames and is still
\* initialized.
C29_Witness ==
    /\ loop.op = "initialize"
    /\ loop.result = "false"
    /\ game.isInitialized
    /\ ~game.isRunning
    /\ loop.updates = 2
    /\ loop.renders = 1

\* A step of Game::run: update comes before render in each frame; an update
\* that leaves isRunning false ends the loop without rendering the frame and
\* run returns true; the loop ends only with isRunning false; entering run
\* sets isRunning.
RunStep ==
    /\ loop.pc = "render" =>
          /\ loop.updates = loop.renders + 1
          /\ loop'.updates = loop'.renders
    /\ loop.pc = "update" =>
          /\ loop.updates = loop.renders
          /\ loop'.updates = loop.updates + 1
          /\ loop'.renders = loop.renders
          /\ loop'.pc = IF game'.isRunning THEN "render" ELSE "idle"
    /\ (loop.pc = "update" /\ ~game'.isRunning) =>
          /\ loop'.pc = "idle"
          /\ loop'.op = "run"
          /\ loop'.result = "true"
          /\ loop'.renders = loop'.updates - 1
    /\ (loop.pc # "idle" /\ loop'.pc = "idle") =>
          /\ ~game'.isRunning
          /\ loop'.op = "run"
          /\ loop'.result = "true"
    /\ (loop.pc = "idle" /\ loop'.pc # "idle") =>
          /\ game.isInitialized
          /\ game'.isRunning
          /\ loop'.pc = "while"

\* C30: within run each frame executes update before render; once isRunning
\* is false after a frame's update (exit or shutdown was called in it) the
\* loop ends without rendering that frame and run returns true; the loop
\* ends only with isRunning false; and run sets isRunning on entry, whatever
\* exit() calls came before it.
C30_RunLoop ==
    /\ [](\A g \in {Game_run(Game_exit(game))} :
              g.entered => g.game.isRunning)
    /\ [](loop.renders <= loop.updates /\ loop.updates <= loop.renders + 1)
    /\ [][RunStep]_vars

\* run has returned true from the update of its third frame, in which exit
\* was called: three updates, two renders, the Game still initialized.
C30_Witness ==
    /\ loop.pc = "idle"
    /\ loop.op = "run"
    /\ loop.result = "true"
    /\ loop.updates = 3
    /\ loop.renders = 2
    /\ game.isInitialized
    /\ ~game.isRunning

====
